---- MODULE Spec2Model ----
(***************************************************************************)
(* Model of the backup pruning tool of toolshed (toolshed/shears.py).      *)
(* File and directory names are sequences of one-character strings, a      *)
(* directory is a set of entries, and the tool's run is a state machine    *)
(* with one step per call of prune_level / prune_limit.                    *)
(***************************************************************************)
EXTENDS Integers, Sequences, FiniteSets, TLC

(***************************************************************************)
(* Characters and strings                                                  *)
(***************************************************************************)

Digits == <<"0", "1", "2", "3", "4", "5", "6", "7", "8", "9">>

IsDigit(c) == \E i \in 1..10 : Digits[i] = c

\* int() of one decimal digit
DigitVal(c) == (CHOOSE i \in 1..10 : Digits[i] = c) - 1

\* Code point of a character, the order Python compares strings by.
Ord(c) ==
    CASE c = " " -> 32
      [] c = "-" -> 45
      [] c = "." -> 46
      [] IsDigit(c) -> 48 + DigitVal(c)
      [] c = "_" -> 95
      [] c = "a" -> 97
      [] c = "b" -> 98
      [] c = "c" -> 99
      [] c = "e" -> 101
      [] c = "g" -> 103
      [] c = "k" -> 107
      [] c = "m" -> 109
      [] c = "n" -> 110
      [] c = "o" -> 111
      [] c = "p" -> 112
      [] c = "r" -> 114
      [] c = "s" -> 115
      [] c = "t" -> 116
      [] c = "u" -> 117
      [] c = "v" -> 118

\* str < str of Python: lexicographic by code point, a proper prefix is smaller.
RECURSIVE StrLess(_, _)
StrLess(s, t) ==
    IF t = <<>> THEN FALSE
    ELSE IF s = <<>> THEN TRUE
    ELSE IF Head(s) # Head(t) THEN Ord(Head(s)) < Ord(Head(t))
    ELSE StrLess(Tail(s), Tail(t))

\* Position of the first occurrence of character c in s, 0 when absent.
RECURSIVE FindChar(_, _, _)
FindChar(s, c, i) ==
    IF i > Len(s) THEN 0
    ELSE IF s[i] = c THEN i
    ELSE FindChar(s, c, i + 1)

\* s.split(c, 1): <<s>> when c is absent, else <<left, right>>.
Split1(s, c) ==
    LET p == FindChar(s, c, 1)
    IN  IF p = 0 THEN <<s>>
        ELSE <<SubSeq(s, 1, p - 1), SubSeq(s, p + 1, Len(s))>>

\* '{}.{}'.format(filename, extension)
DotJoin(filename, extension) == filename \o <<".">> \o extension

(***************************************************************************)
(* Calendar dates: datetime of the Python standard library                 *)
(***************************************************************************)

\* The value None of get_backup_date.
NoDate == [y |-> 0, m |-> 0, d |-> 0]

IsLeap(y) == (y % 4 = 0) /\ ((y % 100 # 0) \/ (y % 400 = 0))

DaysInMonth(y, m) ==
    IF m = 2 THEN (IF IsLeap(y) THEN 29 ELSE 28)
    ELSE IF m \in {4, 6, 9, 11} THEN 30
    ELSE 31

RECURSIVE DaysBeforeMonth(_, _)
DaysBeforeMonth(y, m) ==
    IF m <= 1 THEN 0 ELSE DaysBeforeMonth(y, m - 1) + DaysInMonth(y, m - 1)

\* datetime.toordinal(): 0001-01-01 is day 1.
ToOrdinal(dt) ==
    LET y1 == dt.y - 1
    IN  y1 * 365 + (y1 \div 4) - (y1 \div 100) + (y1 \div 400)
        + DaysBeforeMonth(dt.y, dt.m) + dt.d

\* datetime.weekday() in place of strftime('%w'): 0 is Monday, 6 is Sunday
WeekdayFromMonday(dt) == (ToOrdinal(dt) + 6) % 7

\* strftime('%w'): 0 is Sunday, 6 is Saturday.
WeekdayW(dt) == ToOrdinal(dt) % 7

\* dt - timedelta(days=1)
MinusOneDay(dt) ==
    IF dt.d > 1 THEN [y |-> dt.y, m |-> dt.m, d |-> dt.d - 1]
    ELSE IF dt.m > 1
         THEN [y |-> dt.y, m |-> dt.m - 1, d |-> DaysInMonth(dt.y, dt.m - 1)]
         ELSE [y |-> dt.y - 1, m |-> 12, d |-> 31]

\* The constructor datetime(y, m, d) raises ValueError outside these ranges.
ValidDate(y, m, d) ==
    /\ y >= 1 /\ y <= 9999
    /\ m >= 1 /\ m <= 12
    /\ d >= 1 /\ d <= DaysInMonth(y, m)

(***************************************************************************)
(* datetime.strptime for the two formats the tool uses.  The format is     *)
(* compiled to a regular expression whose first match (alternatives tried  *)
(* left to right, with backtracking) must cover the whole string:          *)
(*   %Y  \d\d\d\d                                                          *)
(*   %m  1[0-2]|0[1-9]|[1-9]                                               *)
(*   %d  3[0-1]|[1-2]\d|0[1-9]|[1-9]| [1-9]                                *)
(***************************************************************************)

At(s, i) == IF i >= 1 /\ i <= Len(s) THEN s[i] ELSE ""

IsDigit19(c) == IsDigit(c) /\ c # "0"

\* Lengths of the alternatives of %m that match at position i, in order.
MonthAlts(s, i) ==
    (IF At(s, i) = "1" /\ At(s, i + 1) \in {"0", "1", "2"} THEN <<2>> ELSE <<>>)
    \o (IF At(s, i) = "0" /\ IsDigit19(At(s, i + 1)) THEN <<2>> ELSE <<>>)
    \o (IF IsDigit19(At(s, i)) THEN <<1>> ELSE <<>>)

\* Lengths of the alternatives of %d that match at position i, in order.
DayAlts(s, i) ==
    (IF At(s, i) = "3" /\ At(s, i + 1) \in {"0", "1"} THEN <<2>> ELSE <<>>)
    \o (IF At(s, i) \in {"1", "2"} /\ IsDigit(At(s, i + 1)) THEN <<2>> ELSE <<>>)
    \o (IF At(s, i) = "0" /\ IsDigit19(At(s, i + 1)) THEN <<2>> ELSE <<>>)
    \o (IF IsDigit19(At(s, i)) THEN <<1>> ELSE <<>>)
    \o (IF At(s, i) = " " /\ IsDigit19(At(s, i + 1)) THEN <<2>> ELSE <<>>)

\* int() of a matched group: decimal digits, a leading blank ignored.
RECURSIVE IntOf(_)
IntOf(s) ==
    IF s = <<>> THEN 0
    ELSE IF s[Len(s)] = " " THEN IntOf(SubSeq(s, 1, Len(s) - 1))
    ELSE IntOf(SubSeq(s, 1, Len(s) - 1)) * 10 + DigitVal(s[Len(s)])

\* The first alternative of %m, of those in alts, after which the separator
\* and an alternative of %d match; 0 when there is none.
RECURSIVE FirstMonth(_, _, _)
FirstMonth(s, sep, alts) ==
    IF alts = <<>> THEN 0
    ELSE IF /\ (sep = 0 \/ At(s, 5 + sep + Head(alts)) = "-")
            /\ DayAlts(s, 5 + sep + Head(alts) + sep) # <<>>
         THEN Head(alts)
         ELSE FirstMonth(s, sep, Tail(alts))

\* datetime(y, m, d) of the matched groups
MatchedDate(y, m, d) ==
    IF ValidDate(y, m, d) THEN [y |-> y, m |-> m, d |-> d] ELSE NoDate

\* The match ends after the day, dl characters from dStart; data left
\* unconverted after it is a ValueError.
StrptimeDay(s, mStart, ml, dStart, dl) ==
    IF dStart + dl - 1 # Len(s) THEN NoDate
    ELSE MatchedDate(IntOf(SubSeq(s, 1, 4)),
                     IntOf(SubSeq(s, mStart, mStart + ml - 1)),
                     IntOf(SubSeq(s, dStart, dStart + dl - 1)))

StrptimeMonth(s, sep, ml) ==
    IF ml = 0 THEN NoDate
    ELSE StrptimeDay(s, 5 + sep, ml, 5 + sep + ml + sep,
                     Head(DayAlts(s, 5 + sep + ml + sep)))

\* strptime(s, fmt) for fmt = '%Y-%m-%d' (sep = 1) and '%Y%m%d' (sep = 0);
\* NoDate stands for the ValueError it raises.
Strptime(s, sep) ==
    IF \E i \in 1..4 : ~IsDigit(At(s, i)) THEN NoDate
    ELSE IF sep = 1 /\ At(s, 5) # "-" THEN NoDate
    ELSE StrptimeMonth(s, sep, FirstMonth(s, sep, MonthAlts(s, 5 + sep)))

\* get_backup_date whose second try reads what the first try read: the part
\* before the first _, up to its first -.
AlternateDateOfToken(filename, first) ==
    IF first # NoDate THEN first
    ELSE Strptime(Split1(Split1(filename, "_")[1], "-")[1], 0)

\* The second try of get_backup_date, made when the first one raised.
AlternateDate(filename, first) ==
    IF first # NoDate THEN first
    ELSE Strptime(Split1(filename, "-")[1], 0)

\* get_backup_date without its second try: the alternate format is not read.
get_backup_dateNoAlternate(filename) ==
    Strptime(Split1(filename, "_")[1], 1)

\* Shears.get_backup_date(filename)
get_backup_date(filename) ==
    AlternateDate(filename, Strptime(Split1(filename, "_")[1], 1))

\* datetime(year, month, 1) of the month after file_date
NextMonthStart(file_date) ==
    IF file_date.m + 1 = 13
    THEN [y |-> file_date.y + 1, m |-> 1, d |-> 1]
    ELSE [y |-> file_date.y, m |-> file_date.m + 1, d |-> 1]

\* datetime(year, month, 1) of is_end_of raises ValueError for the month
\* after December 9999.
IsEndOfRaises(timeframe, file_date) ==
    /\ timeframe = "monthly"
    /\ ~ValidDate(NextMonthStart(file_date).y, NextMonthStart(file_date).m, 1)

\* IsEndOfDate with Sunday for the end of the week
IsEndOfDateSunday(timeframe, file_date) ==
    CASE timeframe = "weekly" -> WeekdayW(file_date) = 0
      [] timeframe = "monthly" -> file_date = MinusOneDay(NextMonthStart(file_date))
      [] timeframe = "yearly" -> file_date = [y |-> file_date.y, m |-> 12, d |-> 31]
      [] OTHER -> FALSE

\* IsEndOfDate with a month that does not roll over into the next year:
\* December has no last day.
IsEndOfDateNoRollover(timeframe, file_date) ==
    CASE timeframe = "weekly" -> WeekdayW(file_date) = 6
      [] timeframe = "monthly" ->
            /\ file_date.m # 12
            /\ file_date = MinusOneDay(NextMonthStart(file_date))
      [] timeframe = "yearly" -> file_date = [y |-> file_date.y, m |-> 12, d |-> 31]
      [] OTHER -> FALSE

\* The tests of is_end_of on the date of the file name, when it returns.
IsEndOfDate(timeframe, file_date) ==
    CASE timeframe = "weekly" -> WeekdayW(file_date) = 6
      [] timeframe = "monthly" -> file_date = MinusOneDay(NextMonthStart(file_date))
      [] timeframe = "yearly" -> file_date = [y |-> file_date.y, m |-> 12, d |-> 31]
      [] OTHER -> FALSE

\* Shears.is_end_of(timeframe, filename); the filename has a date.
is_end_of(timeframe, filename) == IsEndOfDate(timeframe, get_backup_date(filename))

(***************************************************************************)
(* The directory tree.  A directory is a set of entries, each a name and   *)
(* a kind; names are unique within a directory.                            *)
(***************************************************************************)

Levels == <<"daily", "weekly", "monthly", "yearly">>

\* backup_path itself, the directory that flat mode prunes
Root == "root"

Dirs == {Root} \cup {Levels[i] : i \in 1..Len(Levels)}

Names(dir) == {e.name : e \in dir}

EntryNamed(dir, name) == CHOOSE e \in dir : e.name = name

\* A directory that does not exist, told from every directory that does by
\* an entry without a name.
Missing == {[name |-> <<>>, isfile |-> FALSE]}

\* os.listdir(path) of a directory that does not exist: FileNotFoundError
ListRaises(dir) == dir = Missing

\* self.limit is None when no limit option is given, else <<n>>
None == <<>>

(***************************************************************************)
(* Shears.__init__                                                         *)
(***************************************************************************)

\* str.strip() for blanks
RECURSIVE Strip(_)
Strip(s) ==
    IF s = <<>> THEN s
    ELSE IF Head(s) = " " THEN Strip(Tail(s))
    ELSE IF s[Len(s)] = " " THEN Strip(SubSeq(s, 1, Len(s) - 1))
    ELSE s

\* The loop over file_extensions without ext.strip()
RECURSIVE NormExtensionsUnstripped(_)
NormExtensionsUnstripped(raw) ==
    IF raw = <<>> THEN <<>>
    ELSE (IF Head(raw) = <<>> THEN <<>>
          ELSE IF Head(Head(raw)) = "." THEN <<Tail(Head(raw))>>
          ELSE <<Head(raw)>>) \o NormExtensionsUnstripped(Tail(raw))

\* The loop over file_extensions: strip, drop one leading dot, and leave out
\* a token that is empty after strip (IndexError).
RECURSIVE NormExtensions(_)
NormExtensions(raw) ==
    IF raw = <<>> THEN <<>>
    ELSE LET ext == Strip(Head(raw))
         IN  (IF ext = <<>> THEN <<>>
              ELSE IF Head(ext) = "." THEN <<Tail(ext)>>
              ELSE <<ext>>) \o NormExtensions(Tail(raw))

\* The attributes of the Shears object.  backup_levels always holds the four
\* levels, in order, whatever their limits.
Shears(file_extensions, folders, limit, dryrun, days) ==
    LET exts == NormExtensions(file_extensions)
    IN  [ file_extensions |-> IF folders /\ exts = <<>> THEN << <<>> >> ELSE exts,
          folders |-> folders,
          limit |-> limit,
          dryrun |-> dryrun,
          backup_levels |-> [l \in {Levels[i] : i \in 1..Len(Levels)} |-> days[l]] ]

(***************************************************************************)
(* Shears.get_directory_files                                              *)
(***************************************************************************)

Skipped == [ok |-> FALSE, id |-> <<>>]

Considered(id) == [ok |-> TRUE, id |-> id]

\* ScanFile without the test of the extension
ScanFileAnyExtension(parts, file_extension) ==
    IF Len(parts) < 2 THEN Skipped
    ELSE IF get_backup_date(parts[1]) = NoDate THEN Skipped
    ELSE Considered(parts[1])

\* ScanFile without the test of the date
ScanFileAnyName(parts, file_extension) ==
    IF Len(parts) < 2 THEN Skipped
    ELSE IF parts[2] # file_extension THEN Skipped
    ELSE Considered(parts[1])

\* A file: item.split('.', 1) gave parts.
ScanFile(parts, file_extension) ==
    IF Len(parts) < 2 THEN Skipped
    ELSE IF parts[2] # file_extension THEN Skipped
    ELSE IF get_backup_date(parts[1]) = NoDate THEN Skipped
    ELSE Considered(parts[1])

\* ScanItem taking the extension of a file from its last dot, as
\* item.rsplit('.', 1) does.
ScanItemLastDot(item, file_extension, folders) ==
    IF item.isfile
    THEN LET p == CHOOSE q \in 0..Len(item.name) :
                     /\ q > 0 => item.name[q] = "."
                     /\ \A i \in (q + 1)..Len(item.name) : item.name[i] # "."
         IN  ScanFile(IF p = 0 THEN <<item.name>>
                      ELSE <<SubSeq(item.name, 1, p - 1),
                             SubSeq(item.name, p + 1, Len(item.name))>>,
                      file_extension)
    ELSE IF ~folders THEN Skipped
    ELSE IF get_backup_date(item.name) = NoDate THEN Skipped
    ELSE Considered(item.name)

\* One pass of the loop over os.listdir(path): the name appended to files
\* for the item, if one is.
ScanItem(item, file_extension, folders) ==
    IF item.isfile THEN ScanFile(Split1(item.name, "."), file_extension)
    ELSE IF ~folders THEN Skipped
    ELSE IF get_backup_date(item.name) = NoDate THEN Skipped
    ELSE Considered(item.name)

\* item.split('.', 1) of a file name without a dot cannot be unpacked: ValueError
ScanRaises(dir) == \E item \in dir : item.isfile /\ Len(Split1(item.name, ".")) < 2

\* The place of the pair a in the sorted list: after the pairs with a lesser
\* name.  Equal names are the same string, whichever item comes first.
Place(a, appended) ==
    1 + Cardinality({o \in appended :
                        \/ StrLess(o[1], a[1])
                        \/ o[1] = a[1] /\ StrLess(o[2].name, a[2].name)})

\* The names by their places.
ByPlace(placed) ==
    [k \in 1..Cardinality(placed) |-> (CHOOSE p \in placed : p[1] = k)[2]]

\* files.sort(), over the pairs of an appended name and its item
SortFiles(appended) ==
    ByPlace({<<Place(a, appended), a[1]>> : a \in appended})

get_directory_files(dir, file_extension, folders) ==
    SortFiles({<<ScanItem(e, file_extension, folders).id, e>> :
                  e \in {i \in dir : ScanItem(i, file_extension, folders).ok}})

(***************************************************************************)
(* Shears.delete and Shears.move.  Each returns the tree after the call    *)
(* and whether the call raised.                                            *)
(***************************************************************************)

\* The name on disk of a backup: the file name with its extension, or the
\* folder's name.
DiskName(filename, extension, folders) ==
    IF folders THEN filename ELSE DotJoin(filename, extension)

\* delete with the test of dryrun inverted
deleteInverted(tree, c, filename, extension, path) ==
    LET name == DiskName(filename, extension, c.folders)
    IN  IF ~c.dryrun \/ name \notin Names(tree[path])
        THEN [fs |-> tree, err |-> FALSE]
        ELSE [fs |-> [tree EXCEPT ![path] = {e \in @ : e.name # name}],
              err |-> FALSE]

delete(tree, c, filename, extension, path) ==
    LET name == DiskName(filename, extension, c.folders)
    IN  IF c.dryrun THEN [fs |-> tree, err |-> FALSE]
        ELSE IF name \notin Names(tree[path]) THEN [fs |-> tree, err |-> TRUE]
        \* shutil.rmtree wants a directory, os.remove a file
        ELSE IF EntryNamed(tree[path], name).isfile = c.folders
             THEN [fs |-> tree, err |-> TRUE]
        ELSE [fs |-> [tree EXCEPT ![path] = {e \in @ : e.name # name}],
              err |-> FALSE]

\* move without the test of dryrun
moveAlways(tree, c, filename, extension, path, new_path) ==
    LET name == DiskName(filename, extension, c.folders)
    IN  IF name \notin Names(tree[path]) THEN [fs |-> tree, err |-> TRUE]
        ELSE [fs |-> [tree EXCEPT
                        ![path] = {e \in @ : e.name # name},
                        ![new_path] = {e \in @ : e.name # name}
                                        \cup {EntryNamed(tree[path], name)}],
              err |-> FALSE]

move(tree, c, filename, extension, path, new_path) ==
    LET name == DiskName(filename, extension, c.folders)
    IN  IF c.dryrun THEN [fs |-> tree, err |-> FALSE]
        ELSE IF name \notin Names(tree[path]) THEN [fs |-> tree, err |-> TRUE]
        ELSE IF ListRaises(tree[new_path]) THEN [fs |-> tree, err |-> TRUE]
        ELSE LET src == EntryNamed(tree[path], name)
                 taken == name \in Names(tree[new_path])
             IN  \* os.rename replaces a file by a file; it raises for a
                 \* file and a folder, and for a folder that holds files,
                 \* as every folder of backups does
                 IF taken /\ ~(src.isfile /\ EntryNamed(tree[new_path], name).isfile)
                 THEN [fs |-> tree, err |-> TRUE]
                 ELSE [fs |-> [tree EXCEPT
                                 ![path] = {e \in @ : e.name # name},
                                 ![new_path] = {e \in @ : e.name # name} \cup {src}],
                       err |-> FALSE]

(***************************************************************************)
(* Shears.prune_level and Shears.prune_limit.  Each returns the tree after *)
(* the call, the decisions it reported, in order, and whether it raised.   *)
(***************************************************************************)

\* RemoveFiles with the test len(backup_files) > limit + 1
RECURSIVE RemoveFilesOffByOne(_, _)
RemoveFilesOffByOne(backup_files, limit) ==
    IF Len(backup_files) > limit + 1 /\ backup_files # <<>>
    THEN <<Head(backup_files)>> \o RemoveFilesOffByOne(Tail(backup_files), limit)
    ELSE <<>>

\* RemoveFiles with an if in place of the while
RemoveFilesOnce(backup_files, limit) ==
    IF Len(backup_files) > limit /\ backup_files # <<>>
    THEN <<Head(backup_files)>>
    ELSE <<>>

\* RemoveFiles where a limit of 0 switches the level off
RemoveFilesZeroOff(backup_files, limit) ==
    IF limit = 0 \/ Len(backup_files) <= limit THEN <<>>
    ELSE SubSeq(backup_files, 1, Len(backup_files) - limit)

\* while len(backup_files) > limit: remove_files.append(backup_files.pop(0))
\* The loop takes the files from the front for as long as more than limit
\* are left (all of them under a negative limit, before pop raises).
RemoveFiles(backup_files, limit) ==
    IF Len(backup_files) > limit
    THEN SubSeq(backup_files, 1,
                Len(backup_files) - (IF limit > 0 THEN limit ELSE 0))
    ELSE <<>>

\* pop(0) of an empty list, reached with a negative limit: IndexError
RemoveRaises(backup_files, limit) == limit < 0

LevelIndex(level) == CHOOSE i \in 1..Len(Levels) : Levels[i] = level

\* NewLevel over levels[1:], whatever the level pruned
NewLevelFromWeekly(i, backup_file) ==
    LET ends == {j \in 2..Len(Levels) : is_end_of(Levels[j], backup_file)}
    IN  IF ends = {} THEN ""
        ELSE Levels[CHOOSE j \in ends : \A k \in ends : j <= k]

\* NewLevel taking the last level at whose end the file is
NewLevelLast(i, backup_file) ==
    LET ends == {j \in i..Len(Levels) : is_end_of(Levels[j], backup_file)}
    IN  IF ends = {} THEN ""
        ELSE Levels[CHOOSE j \in ends : \A k \in ends : k <= j]

\* NewLevel over levels[level_index:]
NewLevelFromSame(i, backup_file) ==
    LET ends == {j \in (i - 1)..Len(Levels) : is_end_of(Levels[j], backup_file)}
    IN  IF ends = {} THEN ""
        ELSE Levels[CHOOSE j \in ends : \A k \in ends : j <= k]

\* for new_level in levels[level_index + 1:]: the first level at whose end
\* the file is, "" when there is none
RECURSIVE NewLevel(_, _)
NewLevel(i, backup_file) ==
    IF i > Len(Levels) THEN ""
    ELSE IF is_end_of(Levels[i], backup_file) THEN Levels[i]
    ELSE NewLevel(i + 1, backup_file)

\* The search for the new level raises: it comes to a level for which
\* is_end_of raises before one for which it returns True.
RECURSIVE NewLevelRaises(_, _)
NewLevelRaises(i, backup_file) ==
    IF i > Len(Levels) THEN FALSE
    ELSE IF IsEndOfRaises(Levels[i], get_backup_date(backup_file)) THEN TRUE
    ELSE IF is_end_of(Levels[i], backup_file) THEN FALSE
    ELSE NewLevelRaises(i + 1, backup_file)

Moving(level, backup_file, extension, new_level) ==
    [op |-> "move", level |-> level, file |-> backup_file,
     ext |-> extension, to |-> new_level]

Removing(level, backup_file, extension) ==
    [op |-> "delete", level |-> level, file |-> backup_file,
     ext |-> extension, to |-> ""]

\* One pass of the loop over remove_files in prune_level: the decision
\* reported for the file, then the move or the deletion.
PruneFile(tree, c, backup_file, file_extension, level, new_level) ==
    IF new_level # ""
    THEN [said |-> Moving(level, backup_file, file_extension, new_level),
          did |-> move(tree, c, backup_file, file_extension, level, new_level)]
    ELSE [said |-> Removing(level, backup_file, file_extension),
          did |-> delete(tree, c, backup_file, file_extension, level)]

\* One pass of the loop over remove_files in prune_limit.
DeleteFile(tree, c, backup_file, file_extension) ==
    [said |-> Removing(Root, backup_file, file_extension),
     did |-> delete(tree, c, backup_file, file_extension, Root)]

\* The loop after a pass: the tree, the decisions reported so far and
\* whether the pass raised.
AfterFile(pass, out) ==
    [fs |-> pass.did.fs, log |-> Append(out, pass.said), err |-> pass.did.err]

\* for backup_file in remove_files: ...; an exception ends the loop.
\* level is "" in prune_limit.  The passes over a list are the passes over
\* its first half and then, from the tree these leave, the passes over the
\* rest.
RECURSIVE PruneFiles(_, _, _, _, _, _)
AfterFiles(r, c, rest, file_extension, level) ==
    IF r.err THEN r
    ELSE PruneFiles(r.fs, c, rest, file_extension, level, r.log)

PruneFiles(tree, c, remove_files, file_extension, level, out) ==
    IF remove_files = <<>> THEN [fs |-> tree, log |-> out, err |-> FALSE]
    ELSE IF Len(remove_files) = 1 /\ level # ""
            /\ NewLevelRaises(LevelIndex(level) + 1, Head(remove_files))
    THEN [fs |-> tree, log |-> out, err |-> TRUE]
    ELSE IF Len(remove_files) = 1
    THEN AfterFile(
            IF level = ""
            THEN DeleteFile(tree, c, Head(remove_files), file_extension)
            ELSE PruneFile(tree, c, Head(remove_files), file_extension, level,
                           NewLevel(LevelIndex(level) + 1, Head(remove_files))),
            out)
    ELSE AfterFiles(
            PruneFiles(tree, c,
                       SubSeq(remove_files, 1, Len(remove_files) \div 2),
                       file_extension, level, out),
            c,
            SubSeq(remove_files, (Len(remove_files) \div 2) + 1, Len(remove_files)),
            file_extension, level)

\* PruneTo returning early in a dry run
PruneToSkipsDry(tree, c, backup_files, file_extension, level, path, limit) ==
    IF c.dryrun THEN [fs |-> tree, log |-> <<>>, err |-> FALSE]
    ELSE PruneFiles(tree, c, RemoveFiles(backup_files, limit),
                    file_extension, level, <<>>)

\* PruneTo taking a directory that does not exist for an empty one
PruneToListsAnything(tree, c, backup_files, file_extension, level, path, limit) ==
    IF \/ ScanRaises(tree[path])
       \/ RemoveRaises(backup_files, limit)
    THEN [fs |-> tree, log |-> <<>>, err |-> TRUE]
    ELSE PruneFiles(tree, c, RemoveFiles(backup_files, limit),
                    file_extension, level, <<>>)

\* The body of prune_level and of prune_limit after the directory is read.
PruneTo(tree, c, backup_files, file_extension, level, path, limit) ==
    IF \/ ListRaises(tree[path])
       \/ ScanRaises(tree[path])
       \/ RemoveRaises(backup_files, limit)
    THEN [fs |-> tree, log |-> <<>>, err |-> TRUE]
    ELSE PruneFiles(tree, c, RemoveFiles(backup_files, limit),
                    file_extension, level, <<>>)

prune_level(tree, c, file_extension, level) ==
    PruneTo(tree, c,
            get_directory_files(tree[level], file_extension, c.folders),
            file_extension, level, level, c.backup_levels[level])

\* prune_limit taking the limit of daily for the limit
prune_limitByLevel(tree, c, file_extension) ==
    PruneTo(tree, c,
            get_directory_files(tree[Root], file_extension, c.folders),
            file_extension, "", Root, c.backup_levels["daily"])

prune_limit(tree, c, file_extension) ==
    PruneTo(tree, c,
            get_directory_files(tree[Root], file_extension, c.folders),
            file_extension, "", Root, c.limit[1])

(***************************************************************************)
(* The inputs of the model                                                 *)
(***************************************************************************)

\* the most entries the tree holds when the tool is first run
MaxFiles == 3

\* the largest limit given for a level, or as the flat limit
MaxLimit == 1

\* the number of times the tool is run on the tree
MaxRuns == 2

File(name) == [name |-> name, isfile |-> TRUE]

Folder(name) == [name |-> name, isfile |-> FALSE]

\* The backup files a producer may have left: dates at the end of a week
\* (2016-12-31, 2018-03-31, 2018-08-04), a month (2016-12-31, 2017-12-31,
\* 2017-01-31, 2018-03-31) and a year, in both date formats, with and
\* without a description, under two extensions of which one has two parts,
\* a file without a date, and a directory.
FileUniverse ==
    {
      File(<<"2", "0", "1", "6", "-", "1", "2", "-", "3", "1", "_", "a", ".", "b", "a", "k">>),  \* 2016-12-31_a.bak
      File(<<"2", "0", "1", "7", "-", "1", "2", "-", "3", "1", ".", "b", "a", "k">>),  \* 2017-12-31.bak
      File(<<"2", "0", "1", "7", "0", "1", "3", "1", "-", "a", ".", "b", "a", "k">>),  \* 20170131-a.bak
      File(<<"2", "0", "1", "8", "-", "0", "3", "-", "3", "1", ".", "b", "a", "k">>),  \* 2018-03-31.bak
      File(<<"2", "0", "1", "8", "-", "0", "8", "-", "0", "4", ".", "b", "a", "k">>),  \* 2018-08-04.bak
      File(<<"2", "0", "1", "8", "-", "0", "8", "-", "0", "1", "_", "a", ".", "b", "a", "k">>),  \* 2018-08-01_a.bak
      File(<<"2", "0", "1", "8", "-", "0", "3", "-", "3", "1", ".", "t", "m", "p", ".", "b", "a", "k">>),  \* 2018-03-31.tmp.bak
      File(<<"n", "o", "t", "e", "s", ".", "b", "a", "k">>),  \* notes.bak
      [name |-> <<"2", "0", "1", "8", "-", "0", "8", "-", "0", "4">>, isfile |-> FALSE]  \* 2018-08-04, a directory
    }

\* The backup folders a producer may have left, for a run with folders set.
FolderUniverse ==
    {
      Folder(<<"2", "0", "1", "6", "-", "1", "2", "-", "3", "1", "_", "a">>),  \* 2016-12-31_a
      Folder(<<"2", "0", "1", "7", "-", "1", "2", "-", "3", "1">>),  \* 2017-12-31
      Folder(<<"2", "0", "1", "7", "0", "1", "3", "1", "-", "a">>),  \* 20170131-a
      Folder(<<"2", "0", "1", "8", "-", "0", "3", "-", "3", "1">>),  \* 2018-03-31
      Folder(<<"2", "0", "1", "8", "-", "0", "8", "-", "0", "4">>),  \* 2018-08-04
      Folder(<<"n", "o", "t", "e", "s">>)   \* notes
    }

\* The extension arguments a run is given.
ExtensionArgs ==
    { << <<".", "b", "a", "k">> >>,
      << <<"b", "a", "k">>, <<" ", "t", "m", "p", ".", "b", "a", "k">> >> }

Bounded(S) == {T \in SUBSET S : Cardinality(T) <= MaxFiles}

EmptyTree == [d \in Dirs |-> {}]

(***************************************************************************)
(* The state machine: the tree on disk and a run of Shears.prune over it   *)
(***************************************************************************)

VARIABLES
    fs,      \* the directory tree: the entries of each directory
    cfg,     \* the Shears object of the run
    pc,      \* "run" inside prune(), "done" after it, "error" when it raised
    li,      \* the index of the level the loop of prune() is at
    ei,      \* the index of the extension the loop of prune() is at
    log,     \* the decisions the run reported so far, in order
    fs0,     \* the tree when the run started
    runs,    \* the number of runs started
    call,    \* a call of a method of the object by itself: its arguments
    ret      \* what that call returned, or that it raised

vars == <<fs, cfg, pc, li, ei, log, fs0, runs, call, ret>>

\* No method is called by itself.
NoCall == [fn |-> "", timeframe |-> "", filename |-> <<>>]

NoReturn == [raised |-> FALSE, value |-> FALSE]

LimitArgs == [{Levels[i] : i \in 1..Len(Levels)} -> 0..MaxLimit]

\* A run in levels: the producer has written into daily.
InitLevels ==
    \E folders \in BOOLEAN, dryrun \in BOOLEAN, days \in LimitArgs :
      \E exts \in (IF folders THEN {<<>>} ELSE ExtensionArgs) :
        \E daily \in Bounded(IF folders THEN FolderUniverse ELSE FileUniverse) :
          /\ cfg = Shears(exts, folders, None, dryrun, days)
          /\ fs = [EmptyTree EXCEPT !["daily"] = daily]

\* What is under backup_path besides the backups when the tool is run with
\* a limit: no directory for any level, or the directories of the levels,
\* with a backup in daily.
FlatTrees(folders) ==
    { [d \in Dirs |-> IF d = Root THEN {} ELSE Missing],
      [EmptyTree EXCEPT !["daily"] =
          {CHOOSE e \in (IF folders THEN FolderUniverse ELSE FileUniverse) :
              \A o \in (IF folders THEN FolderUniverse ELSE FileUniverse) :
                  ~StrLess(o.name, e.name)}] }

\* A run with a limit: the producer has written into backup_path.  The
\* limits of the levels are given too, all of them the same.
InitLimit ==
    \E folders \in BOOLEAN, dryrun \in BOOLEAN, limit \in 0..MaxLimit :
      \E exts \in (IF folders THEN {<<>>} ELSE ExtensionArgs) :
        \E flat \in Bounded(IF folders THEN FolderUniverse ELSE FileUniverse) :
          \E days \in {d \in LimitArgs : \A l \in DOMAIN d : d[l] = d["daily"]} :
            \E tree \in FlatTrees(folders) :
              /\ cfg = Shears(exts, folders, <<limit>>, dryrun, days)
              /\ fs = [tree EXCEPT ![Root] = flat]

Init ==
    /\ InitLevels \/ InitLimit
    /\ pc = "run"
    /\ li = 1
    /\ ei = 1
    /\ log = <<>>
    /\ fs0 = fs
    /\ runs = 1
    /\ call = NoCall
    /\ ret = NoReturn

\* The effect of one call r of prune_level or prune_limit on the run.
Called(r) ==
    /\ fs' = r.fs
    /\ log' = log \o r.log
    /\ pc' = IF r.err THEN "error" ELSE "run"

\* PruneLevel with the loops of prune() the other way round: for each
\* extension, every level.
PruneLevelByExtension ==
    /\ pc = "run"
    /\ cfg.limit = None
    /\ li <= Len(Levels)
    /\ ei <= Len(cfg.file_extensions)
    /\ Called(prune_level(fs, cfg, cfg.file_extensions[ei], Levels[li]))
    /\ IF li < Len(Levels)
       THEN li' = li + 1 /\ ei' = ei
       ELSE IF ei < Len(cfg.file_extensions)
            THEN li' = 1 /\ ei' = ei + 1
            ELSE li' = li + 1 /\ ei' = 1
    /\ UNCHANGED <<cfg, fs0, runs, call, ret>>

\* One pass of the inner loop of prune() in levels: a call of prune_level.
PruneLevel ==
    /\ pc = "run"
    /\ cfg.limit = None
    /\ li <= Len(Levels)
    /\ ei <= Len(cfg.file_extensions)
    /\ Called(prune_level(fs, cfg, cfg.file_extensions[ei], Levels[li]))
    /\ IF ei < Len(cfg.file_extensions)
       THEN li' = li /\ ei' = ei + 1
       ELSE li' = li + 1 /\ ei' = 1
    /\ UNCHANGED <<cfg, fs0, runs, call, ret>>

\* One pass of the loop of prune() with a limit: a call of prune_limit.
PruneLimit ==
    /\ pc = "run"
    /\ cfg.limit # None
    /\ ei <= Len(cfg.file_extensions)
    /\ Called(prune_limit(fs, cfg, cfg.file_extensions[ei]))
    /\ ei' = ei + 1
    /\ UNCHANGED <<cfg, li, fs0, runs, call, ret>>

\* The loops of prune() are over: it reports the end of the run and returns.
Finish ==
    /\ pc = "run"
    /\ IF cfg.limit # None THEN ei > Len(cfg.file_extensions)
       ELSE li > Len(Levels) \/ cfg.file_extensions = <<>>
    /\ pc' = "done"
    /\ UNCHANGED <<fs, cfg, li, ei, log, fs0, runs, call, ret>>

\* The tool is run again with the same arguments on the tree as it is.
Rerun ==
    /\ pc = "done"
    /\ runs < MaxRuns
    /\ pc' = "run"
    /\ li' = 1
    /\ ei' = 1
    /\ log' = <<>>
    /\ fs0' = fs
    /\ runs' = runs + 1
    /\ UNCHANGED <<fs, cfg, call, ret>>

Next == PruneLevel \/ PruneLimit \/ Finish \/ Rerun

Spec == Init /\ [][Next]_vars

(***************************************************************************)
(* The scenarios of the test suite: backups of consecutive days, written   *)
(* by create_files, and a run over them.                                   *)
(***************************************************************************)

\* start_date + timedelta(days=1)
PlusOneDay(dt) ==
    IF dt.d < DaysInMonth(dt.y, dt.m) THEN [dt EXCEPT !.d = @ + 1]
    ELSE IF dt.m < 12 THEN [y |-> dt.y, m |-> dt.m + 1, d |-> 1]
    ELSE [y |-> dt.y + 1, m |-> 1, d |-> 1]

\* start_date after days passes of the loop of create_files
RECURSIVE PlusDays(_, _)
PlusDays(dt, days) ==
    IF days <= 0 THEN dt
    ELSE IF dt.d + days <= DaysInMonth(dt.y, dt.m) THEN [dt EXCEPT !.d = @ + days]
    ELSE PlusDays(PlusOneDay([dt EXCEPT !.d = DaysInMonth(dt.y, dt.m)]),
                  days - (DaysInMonth(dt.y, dt.m) - dt.d) - 1)

\* The dates of the loop of create_files: num_files days from start_date on.
Sequential(start_date, num_files) ==
    {PlusDays(start_date, k) : k \in 0..(num_files - 1)}

\* '{:02d}'.format(n)
Pad2(n) == <<Digits[((n \div 10) % 10) + 1], Digits[(n % 10) + 1]>>

\* '{:04d}'.format(n)
Pad4(n) == Pad2(n \div 100) \o Pad2(n % 100)

\* The date of a name in the format YYYY-MM-DD, or YYYYMMDD when
\* alt_date_format is set.
FormatDate(dt, alt_date_format) ==
    IF alt_date_format THEN Pad4(dt.y) \o Pad2(dt.m) \o Pad2(dt.d)
    ELSE Pad4(dt.y) \o <<"-">> \o Pad2(dt.m) \o <<"-">> \o Pad2(dt.d)

\* The name of a backup without its extension: the date and, after the
\* separator of the format, the suffix if there is one.
FormatName(dt, name_suffix, alt_date_format) ==
    FormatDate(dt, alt_date_format)
    \o (IF name_suffix = <<>> THEN <<>>
        ELSE (IF alt_date_format THEN <<"-">> ELSE <<"_">>) \o name_suffix)

\* The files create_files writes into daily.
create_files(start_date, num_files, extension, name_suffix, alt_date_format) ==
    {File(DotJoin(FormatName(dt, name_suffix, alt_date_format), extension)) :
        dt \in Sequential(start_date, num_files)}

\* The folders create_folders makes in daily; what it puts into each folder
\* is removed with the folder and read by nothing.
create_folders(start_date, num_folders, name_suffix, alt_date_format) ==
    {Folder(FormatName(dt, name_suffix, alt_date_format)) :
        dt \in Sequential(start_date, num_folders)}

\* The first date and the suffix of the backups of the tests.
TestStart == [y |-> 2017, m |-> 11, d |-> 15]

TestSuffix == <<"t", "e", "s", "t", "_", "b", "a", "c", "k", "u", "p">>

\* The limits of the levels in test_default, test_shorter_limits,
\* test_daily_weekly_only, test_daily_monthly_only and test_monthly_only.
DefaultDays == [daily |-> 14, weekly |-> 6, monthly |-> 6, yearly |-> 6]

ShorterDays == [daily |-> 20, weekly |-> 4, monthly |-> 3, yearly |-> 2]

TestDays ==
    { DefaultDays, ShorterDays,
      [DefaultDays EXCEPT !["monthly"] = 0, !["yearly"] = 0],
      [DefaultDays EXCEPT !["weekly"] = 0, !["yearly"] = 0],
      [DefaultDays EXCEPT !["daily"] = 0, !["weekly"] = 0, !["yearly"] = 0] }

\* 275 backups in daily and a run in levels.
InitTestLevels(dryrun, alt_date_format) ==
    \E days \in TestDays :
        /\ cfg = Shears(<< <<".", "b", "a", "k">> >>, FALSE, None, dryrun, days)
        /\ fs = [EmptyTree EXCEPT !["daily"] =
                    create_files(TestStart, 275, <<"b", "a", "k">>,
                                 TestSuffix, alt_date_format)]

\* 10 backups in backup_path and a run with a limit of 6.
InitTestLimit(dryrun, alt_date_format) ==
    /\ cfg = Shears(<< <<".", "b", "a", "k">> >>, FALSE, <<6>>, dryrun, DefaultDays)
    /\ fs = [EmptyTree EXCEPT ![Root] =
                create_files(TestStart, 10, <<"b", "a", "k">>,
                             TestSuffix, alt_date_format)]

\* 275 folders in daily and a run in levels, as in test_directory__levels
\* and test_directory_alt__levels.
InitTestFolderLevels(dryrun, alt_date_format) ==
    /\ cfg = Shears(<< <<>> >>, TRUE, None, dryrun, DefaultDays)
    /\ fs = [EmptyTree EXCEPT !["daily"] =
                create_folders(TestStart, 275, <<"b", "a", "c", "k", "u", "p">>,
                               alt_date_format)]

\* 10 folders in backup_path, the directories of the levels removed, and a
\* run with a limit of 6, as in test_directory__limit and
\* test_directory_alt__limit.
InitTestFolderLimit(dryrun, alt_date_format) ==
    /\ cfg = Shears(<< <<>> >>, TRUE, <<6>>, dryrun, DefaultDays)
    /\ fs = [d \in Dirs |->
                IF d = Root
                THEN create_folders(TestStart, 10, <<>>, alt_date_format)
                ELSE Missing]

InitTest ==
    /\ \E dryrun \in BOOLEAN, alt_date_format \in BOOLEAN :
          \/ InitTestLevels(dryrun, alt_date_format)
          \/ InitTestLimit(dryrun, alt_date_format)
          \/ InitTestFolderLevels(dryrun, alt_date_format)
          \/ InitTestFolderLimit(dryrun, alt_date_format)
    /\ pc = "run"
    /\ li = 1
    /\ ei = 1
    /\ log = <<>>
    /\ fs0 = fs
    /\ runs = 1
    /\ call = NoCall
    /\ ret = NoReturn

SpecTest == InitTest /\ [][Next]_vars

(***************************************************************************)
(* Calls of get_backup_date and is_end_of by themselves, on names of       *)
(* backups without their extension.                                        *)
(***************************************************************************)

\* The timeframes is_end_of is asked about: the levels and one it does not
\* know.
Timeframes == {"daily", "weekly", "monthly", "yearly", "hourly"}

\* The dates of the years: those datetime has.
DatesOf(years) ==
    {dt \in [y : years, m : 1..12, d : 1..31] : ValidDate(dt.y, dt.m, dt.d)}

\* Years at both ends of what datetime has, leap years and others.
CallYears == {1, 1900, 2000, 2016, 2017, 9999}

\* What a name starts with: a date in one of the two formats, a date without
\* zeros before its month and day, a day or a month that is not in the
\* calendar, and no date.
CallTokens ==
    {FormatDate(dt, alt) :
        dt \in {[y |-> 2018, m |-> 1, d |-> 5], [y |-> 2017, m |-> 12, d |-> 31],
                [y |-> 2016, m |-> 2, d |-> 29]},
        alt \in BOOLEAN}
    \cup { <<"2", "0", "1", "8", "-", "1", "-", "5">>,
           <<"2", "0", "1", "8", "1", "1", "5">>,
           <<"2", "0", "1", "8", "-", "0", "2", "-", "3", "0">>,
           <<"2", "0", "1", "8", "1", "3", "0", "1">>,
           <<"n", "o", "t", "e", "s">>,
           <<>> }

\* What follows the date in a name: nothing, or descriptions after _ and -.
CallSuffixes ==
    { <<>>,
      <<"_", "a">>,
      <<"_", "a", "_", "b">>,
      <<"-", "a">>,
      <<"-", "a", "-", "b">>,
      <<"-", "a", "_", "b">>,
      <<"_", "a", "-", "b">>,
      <<"-", "1", "2", "3", "0">> }

\* The names the methods are called with.
CallNames ==
    {FormatName(dt, <<>>, FALSE) : dt \in DatesOf(CallYears)}
    \cup {token \o suffix : token \in CallTokens, suffix \in CallSuffixes}

\* is_end_of(timeframe, filename) as a call: file_date.strftime raises
\* AttributeError when the filename has no date.
IsEndOfCall(timeframe, file_date) ==
    IF file_date = NoDate \/ IsEndOfRaises(timeframe, file_date)
    THEN [raised |-> TRUE, value |-> FALSE]
    ELSE [raised |-> FALSE, value |-> IsEndOfDate(timeframe, file_date)]

InitCall ==
    /\ call \in {[NoCall EXCEPT !.filename = n] : n \in CallNames}
    /\ ret = NoReturn
    /\ cfg = Shears(<< <<"b", "a", "k">> >>, FALSE, None, FALSE, DefaultDays)
    /\ fs = EmptyTree
    /\ pc = "call"
    /\ li = 1
    /\ ei = 1
    /\ log = <<>>
    /\ fs0 = fs
    /\ runs = 1

\* A call of get_backup_date(filename)
GetBackupDate ==
    /\ pc = "call" /\ call.fn = ""
    /\ call' = [call EXCEPT !.fn = "get_backup_date"]
    /\ ret' = [raised |-> FALSE, value |-> get_backup_date(call.filename)]
    /\ UNCHANGED <<fs, cfg, pc, li, ei, log, fs0, runs>>

\* A call of is_end_of(timeframe, filename)
IsEndOf ==
    /\ pc = "call" /\ call.fn = ""
    /\ \E timeframe \in Timeframes :
          /\ call' = [call EXCEPT !.fn = "is_end_of", !.timeframe = timeframe]
          /\ ret' = IsEndOfCall(timeframe, get_backup_date(call.filename))
    /\ UNCHANGED <<fs, cfg, pc, li, ei, log, fs0, runs>>

NextCall == GetBackupDate \/ IsEndOf

SpecCall == InitCall /\ [][NextCall]_vars

(***************************************************************************)
(* The names of the tests and the names of the docstring together: runs    *)
(* over the backups of the tests, and calls of the methods by themselves.  *)
(***************************************************************************)

InitDates == InitTest \/ InitCall

NextDates ==
    PruneLevel \/ PruneLimit \/ Finish \/ Rerun \/ GetBackupDate \/ IsEndOf

SpecDates == InitDates /\ [][NextDates]_vars

(***************************************************************************)
(* Runs with deposits between them: the producer writes into daily (into   *)
(* backup_path when the tool is run with a limit) after a run, also a      *)
(* backup of a date it has written before, and the tool is run again.  The *)
(* tree may hold files that are no backups, and a directory of the tree    *)
(* may not exist.                                                          *)
(***************************************************************************)

\* What is written into daily for a run over files: backups of the end of
\* a week, a month and a year (2016-12-31), of a month and a year
\* (2017-12-31), of a week (2018-08-04) and of no end (2018-08-01), one of
\* them with a dot in its description, and a file without a dot.
DepositFiles ==
    {
      File(<<"2", "0", "1", "6", "-", "1", "2", "-", "3", "1", "_", "a", ".", "b", "a", "k">>),  \* 2016-12-31_a.bak
      File(<<"2", "0", "1", "7", "-", "1", "2", "-", "3", "1", ".", "b", "a", "k">>),  \* 2017-12-31.bak
      File(<<"2", "0", "1", "8", "-", "0", "8", "-", "0", "4", ".", "b", "a", "k">>),  \* 2018-08-04.bak
      File(<<"2", "0", "1", "8", "-", "0", "8", "-", "0", "1", "_", "a", ".", "b", "a", "k">>),  \* 2018-08-01_a.bak
      File(<<"2", "0", "1", "8", "-", "0", "8", "-", "0", "1", "_", "v", "1", ".", "2", ".", "b", "a", "k">>),  \* 2018-08-01_v1.2.bak
      File(<<"n", "o", "t", "e", "s">>)  \* notes
    }

\* What is written into daily for a run over folders: folders of the same
\* dates, and a file whose name ends in a dot after a date.
DepositFolders ==
    {
      Folder(<<"2", "0", "1", "6", "-", "1", "2", "-", "3", "1", "_", "a">>),  \* 2016-12-31_a
      Folder(<<"2", "0", "1", "7", "-", "1", "2", "-", "3", "1">>),  \* 2017-12-31
      Folder(<<"2", "0", "1", "8", "-", "0", "8", "-", "0", "4">>),  \* 2018-08-04
      File(<<"2", "0", "1", "8", "-", "0", "8", "-", "0", "1", ".">>)  \* 2018-08-01. , a file
    }

Deposits(folders) == IF folders THEN DepositFolders ELSE DepositFiles

\* The trees without backups: every directory is there, or the directory of
\* one level is not, or backup_path is not and nothing under it.
BareTrees ==
    {EmptyTree, [d \in Dirs |-> Missing]}
    \cup {[EmptyTree EXCEPT ![Levels[i]] = Missing] : i \in 1..Len(Levels)}

\* The number of entries in the tree.
Entries(tree) ==
    Cardinality({<<d, e>> \in Dirs \X UNION {tree[d] : d \in Dirs} :
                    tree[d] # Missing /\ e \in tree[d]})

\* The directory the producer writes into.
DepositDir(c) == IF c.limit = None THEN "daily" ELSE Root

InitDeposit ==
    /\ \E folders \in BOOLEAN, dryrun \in BOOLEAN, days \in LimitArgs,
          limit \in {None} \cup {<<n>> : n \in 0..MaxLimit} :
          /\ limit # None => \A l \in DOMAIN days : days[l] = days["daily"]
          /\ cfg = Shears(IF folders THEN << <<>> >> ELSE << <<".", "b", "a", "k">> >>,
                          folders, limit, dryrun, days)
    /\ \E tree \in BareTrees, written \in Bounded(Deposits(cfg.folders)) :
          /\ tree[DepositDir(cfg)] # Missing
                \/ written = {}
          /\ fs = IF written = {} THEN tree
                  ELSE [tree EXCEPT ![DepositDir(cfg)] = written]
    /\ pc = "run"
    /\ li = 1
    /\ ei = 1
    /\ log = <<>>
    /\ fs0 = fs
    /\ runs = 1
    /\ call = NoCall
    /\ ret = NoReturn

\* After a run the producer writes one more backup, one that is not in the
\* directory it writes into.
Deposit ==
    /\ pc = "done"
    /\ runs < MaxRuns
    /\ Entries(fs) < MaxFiles
    /\ fs[DepositDir(cfg)] # Missing
    /\ \E e \in Deposits(cfg.folders) \ fs[DepositDir(cfg)] :
          fs' = [fs EXCEPT ![DepositDir(cfg)] = @ \cup {e}]
    /\ UNCHANGED <<cfg, pc, li, ei, log, fs0, runs, call, ret>>

NextDeposit == PruneLevel \/ PruneLimit \/ Finish \/ Rerun \/ Deposit

SpecDeposit == InitDeposit /\ [][NextDeposit]_vars

(***************************************************************************)
(* Properties of a run                                                     *)
(***************************************************************************)

InLevels == cfg.limit = None

Extensions == {cfg.file_extensions[j] : j \in 1..Len(cfg.file_extensions)}

LevelSet == {Levels[i] : i \in 1..Len(Levels)}

\* The entries of a directory that the run takes for backups of extension ext.
EligibleFor(dir, ext) == {e \in dir : ScanItem(e, ext, cfg.folders).ok}

\* The entries of a directory that the run takes for backups.
EligibleIn(dir) == UNION {EligibleFor(dir, ext) : ext \in Extensions}

\* The date of an entry taken for a backup of extension ext.
DateOf(e, ext) == get_backup_date(ScanItem(e, ext, cfg.folders).id)

\* A step that is a call of prune_level which returned, in a run that is
\* not a dry run.
LevelPass ==
    /\ InLevels /\ ~cfg.dryrun
    /\ pc = "run" /\ pc' = "run"

HasMove(l) == \E k \in 1..Len(l) : l[k].op = "move"

HasDelete(l) == \E k \in 1..Len(l) : l[k].op = "delete"

Least(S) == CHOOSE x \in S : \A y \in S : x <= y

----------------------------------------------------------------------------
\* C1 as stated: after a run in levels that is not a dry run, no level's
\* directory holds more eligible artifacts than the level's limit.
C1_AsStated ==
    (pc = "done" /\ InLevels /\ ~cfg.dryrun) =>
        \A l \in LevelSet :
            Cardinality(EligibleIn(fs[l])) <= cfg.backup_levels[l]

\* C1 as amended: after a run in levels that is not a dry run, for every
\* level and every requested extension, the level's directory holds no more
\* eligible artifacts of that extension than the level's limit.
C1_CapacityPerExtension ==
    (pc = "done" /\ InLevels /\ ~cfg.dryrun) =>
        \A l \in LevelSet : \A ext \in Extensions :
            Len(get_directory_files(fs[l], ext, cfg.folders))
                <= cfg.backup_levels[l]

\* A run over two extensions has evicted artifacts and left daily with one
\* artifact of each extension against a limit of 1.
C1_Witness ==
    /\ pc = "done" /\ InLevels /\ ~cfg.dryrun /\ runs = 1
    /\ log # <<>>
    /\ cfg.backup_levels["daily"] = 1
    /\ Cardinality(Extensions) = 2
    /\ \A ext \in Extensions : Cardinality(EligibleFor(fs["daily"], ext)) = 1

----------------------------------------------------------------------------
\* The levels after level number i at whose end the name id is.
LaterEnds(i, id) == {j \in (i + 1)..Len(Levels) : is_end_of(Levels[j], id)}

\* The artifact e that left level number i is in the directory of level
\* number j, of those in targets, and nowhere else than before; with no
\* target it is in no directory.
WentTo(e, i, targets) ==
    IF targets = {}
    THEN \A d \in Dirs : e \notin fs'[d]
    ELSE /\ e \in fs'[Levels[Least(targets)]]
         /\ \A j \in 1..Len(Levels) :
               j # Least(targets) => (e \in fs'[Levels[j]] <=> e \in fs[Levels[j]] /\ j # i)

\* C2 as stated: every artifact evicted from a level is moved into the first
\* later level that is enabled (its limit is not 0) and at whose end its date
\* is, and is deleted when there is no such level.
C2_AsStated ==
    [][LevelPass =>
        \A e \in fs[Levels[li]] \ fs'[Levels[li]] :
            LET id == ScanItem(e, cfg.file_extensions[ei], cfg.folders).id
            IN  WentTo(e, li, {j \in LaterEnds(li, id) :
                                  cfg.backup_levels[Levels[j]] > 0})]_vars

\* C2 as amended: every artifact evicted from a level is moved into the first
\* later level, whatever its limit, at whose end its date is, also when its
\* date is at the end of a level after that one, and is deleted when its date
\* is at the end of no later level.
C2_FirstLaterLevel ==
    [][LevelPass =>
        \A e \in fs[Levels[li]] \ fs'[Levels[li]] :
            LET id == ScanItem(e, cfg.file_extensions[ei], cfg.folders).id
            IN  WentTo(e, li, LaterEnds(li, id))]_vars

\* A run has moved to weekly an artifact whose date is also the end of a
\* month, and has deleted another.
C2_Witness ==
    /\ pc = "done" /\ InLevels /\ ~cfg.dryrun
    /\ \E k \in 1..Len(log) :
          /\ log[k].op = "move" /\ log[k].level = "daily" /\ log[k].to = "weekly"
          /\ is_end_of("monthly", log[k].file)
          /\ DiskName(log[k].file, log[k].ext, cfg.folders) \in Names(fs["weekly"])
    /\ HasDelete(log)

----------------------------------------------------------------------------
\* C3: the artifacts a call of prune_level evicts from a level are the
\* oldest by date: none has a later date than an artifact of the same
\* extension that the call keeps in the level.
C3_OldestFirst ==
    [][LevelPass =>
        \A e \in fs[Levels[li]] \ fs'[Levels[li]] :
            \A k \in EligibleFor(fs'[Levels[li]], cfg.file_extensions[ei]) :
                ToOrdinal(DateOf(e, cfg.file_extensions[ei]))
                    <= ToOrdinal(DateOf(k, cfg.file_extensions[ei]))]_vars
----------------------------------------------------------------------------
\* C4 as stated: in a run in levels no artifact is at any time in the
\* directory of a level after daily whose limit is 0.
C4_AsStated ==
    (InLevels /\ ~cfg.dryrun) =>
        \A i \in 2..Len(Levels) :
            cfg.backup_levels[Levels[i]] = 0 => fs[Levels[i]] = {}

\* The decision at place k of the log moves an artifact whose date ends a
\* month out of daily.
MonthEndLeavesDaily(k) ==
    /\ log[k].op = "move" /\ log[k].level = "daily"
    /\ is_end_of("monthly", log[k].file)

\* C4 as amended: a level whose limit is 0 is a target like any other, and an
\* artifact moved into it is evicted again when the run comes to that level:
\* an eligible artifact is in such a level's directory only while the run has
\* not yet pruned the level.  With a weekly limit of 0 an artifact that leaves
\* daily with a date at the end of a month is moved to monthly unless the
\* date is a Saturday, and then it is moved to weekly and from there to
\* monthly in the same run.
C4_ZeroLevelIsPassedThrough ==
    (InLevels /\ ~cfg.dryrun) =>
        /\ \A i \in 1..Len(Levels) :
              (cfg.backup_levels[Levels[i]] = 0 /\ EligibleIn(fs[Levels[i]]) # {})
                  => (pc = "error" \/ (pc = "run" /\ li <= i))
        /\ (pc = "done" /\ cfg.backup_levels["weekly"] = 0) =>
              \A k \in 1..Len(log) :
                  MonthEndLeavesDaily(k) =>
                      IF is_end_of("weekly", log[k].file)
                      THEN /\ log[k].to = "weekly"
                           /\ \E n \in (k + 1)..Len(log) :
                                 log[n] = Moving("weekly", log[k].file,
                                                 log[k].ext, "monthly")
                      ELSE log[k].to = "monthly"

\* A run with a weekly limit of 0 has moved an artifact into weekly, and on
\* to monthly, and another from daily to monthly.
C4_Witness ==
    /\ pc = "done" /\ InLevels /\ ~cfg.dryrun
    /\ cfg.backup_levels["weekly"] = 0
    /\ \E k \in 1..Len(log) : MonthEndLeavesDaily(k) /\ log[k].to = "weekly"
    /\ \E k \in 1..Len(log) : MonthEndLeavesDaily(k) /\ log[k].to = "monthly"
    /\ fs["weekly"] = {} /\ Cardinality(fs["monthly"]) >= 1

----------------------------------------------------------------------------
\* C5 as stated: the eligible artifacts that are in the directory of a level
\* whose limit is 0 when a run in levels starts stay there.
C5_AsStated ==
    (InLevels /\ ~cfg.dryrun) =>
        \A l \in LevelSet :
            cfg.backup_levels[l] = 0 => EligibleIn(fs0[l]) \subseteq fs[l]

\* C5 as amended: a level whose limit is 0 is pruned like any other: the call
\* of prune_level for it and an extension reads its directory and evicts
\* every eligible artifact of that extension, reporting a move or a deletion
\* for each.
C5_ZeroLevelIsEmptied ==
    [][(LevelPass /\ cfg.backup_levels[Levels[li]] = 0) =>
        /\ EligibleFor(fs'[Levels[li]], cfg.file_extensions[ei]) = {}
        /\ Len(log') = Len(log)
              + Cardinality(EligibleFor(fs[Levels[li]], cfg.file_extensions[ei]))]_vars

\* A run with a daily limit of 0 has evicted the two artifacts that were in
\* daily.
C5_Witness ==
    /\ InLevels /\ ~cfg.dryrun /\ runs = 1 /\ pc = "run" /\ li = 2
    /\ cfg.backup_levels["daily"] = 0
    /\ Cardinality(EligibleIn(fs0["daily"])) = 2
    /\ fs["daily"] = {}
    /\ Len(log) = 2

----------------------------------------------------------------------------
\* The artifacts of extension ext among those of dir whose date ends a month.
MonthEnds(dir, ext) ==
    {e \in EligibleFor(dir, ext) :
        is_end_of("monthly", ScanItem(e, ext, cfg.folders).id)}

\* The n newest by date of the artifacts S of extension ext (all of them when
\* there are no more than n).
Newest(S, ext, n) ==
    {e \in S : Cardinality({o \in S : ToOrdinal(DateOf(o, ext))
                                        > ToOrdinal(DateOf(e, ext))}) < n}

\* C6: after a run in levels the directory of every level whose limit is 0
\* holds no eligible artifact; and when monthly is the only level with a
\* limit above 0, monthly ends with the newest artifacts, up to its limit, of
\* each extension among those put in daily whose date ends a month.
C6_ZeroLevelsEndEmpty ==
    (pc = "done" /\ InLevels /\ ~cfg.dryrun /\ runs = 1) =>
        /\ \A l \in LevelSet :
              cfg.backup_levels[l] = 0 => EligibleIn(fs[l]) = {}
        /\ (\A l \in LevelSet : cfg.backup_levels[l] > 0 <=> l = "monthly") =>
              \A ext \in Extensions :
                  EligibleFor(fs["monthly"], ext)
                      = Newest(MonthEnds(fs0["daily"], ext), ext,
                               cfg.backup_levels["monthly"])

----------------------------------------------------------------------------
AllZero == \A l \in LevelSet : cfg.backup_levels[l] = 0

----------------------------------------------------------------------------
\* C8: a second run in levels, on the tree a first run has left, decides no
\* move and no deletion and leaves every directory as it found it.
C8_SecondRunChangesNothing ==
    (InLevels /\ ~cfg.dryrun /\ runs >= 2) => (log = <<>> /\ fs = fs0)

\* A second run has ended on a tree in which the first run had kept an
\* artifact in daily and moved one to weekly.
C8_Witness ==
    /\ pc = "done" /\ InLevels /\ ~cfg.dryrun /\ runs = 2
    /\ EligibleIn(fs["daily"]) # {}
    /\ EligibleIn(fs["weekly"]) # {}

----------------------------------------------------------------------------
\* C9: a dry run, in levels or with a limit, over files or over folders,
\* changes no directory.
C9_DryRunChangesNothing == [][cfg.dryrun => fs' = fs]_vars

\* A dry run over folders in levels has ended after deciding two moves.
C9_Witness ==
    /\ pc = "done" /\ cfg.dryrun /\ cfg.folders /\ InLevels
    /\ HasMove(log) /\ Len(log) = 2
    /\ Cardinality(fs["daily"]) = 2

----------------------------------------------------------------------------
\* The calls of prune_level of a run in levels that is not a dry run, in
\* order: the level and extension of each, the tree before it and the
\* decisions it reports.  The calls end with the one that raises.
PassLevel(c, k) == Levels[((k - 1) \div Len(c.file_extensions)) + 1]

PassExtension(c, k) == c.file_extensions[((k - 1) % Len(c.file_extensions)) + 1]

RECURSIVE RealPasses(_, _, _)
RealPassesOn(tree, c, k, r) ==
    <<[level |-> PassLevel(c, k), ext |-> PassExtension(c, k),
       before |-> tree, log |-> r.log]>>
    \o (IF r.err THEN <<>> ELSE RealPasses(r.fs, c, k + 1))

RealPasses(tree, c, k) ==
    IF k > Len(Levels) * Len(c.file_extensions) THEN <<>>
    ELSE RealPassesOn(tree, c, k,
            prune_level(tree, [c EXCEPT !.dryrun = FALSE],
                        PassExtension(c, k), PassLevel(c, k)))

RECURSIVE Decisions(_)
Decisions(passes) ==
    IF passes = <<>> THEN <<>> ELSE Head(passes).log \o Decisions(Tail(passes))

\* The decisions of the log for a level and an extension.
DecisionsFor(l, level, ext) ==
    SelectSeq(l, LAMBDA d : d.level = level /\ d.ext = ext)

\* C10 as stated: a dry run in levels reports the decisions that the run
\* which is not a dry run takes from the same tree with the same arguments.
C10_AsStated ==
    (pc = "done" /\ InLevels /\ cfg.dryrun /\ runs = 1) =>
        log = Decisions(RealPasses(fs0, cfg, 1))

DryRunAgrees(passes) ==
    \A k \in 1..Len(passes) :
        passes[k].before[passes[k].level] = fs0[passes[k].level] =>
            DecisionsFor(log, passes[k].level, passes[k].ext) = passes[k].log

\* C10 as amended: a dry run in levels reports, for a level and an extension,
\* the decisions that the run which is not a dry run takes from the same tree
\* with the same arguments, whenever that run has not changed the level's
\* directory before it prunes the level for the extension (as for daily and
\* the first extension); for a level into which that run has moved artifacts
\* the decisions can differ.
C10_DryRunAgreesOnUntouchedLevels ==
    (pc = "done" /\ InLevels /\ cfg.dryrun /\ runs = 1) =>
        DryRunAgrees(RealPasses(fs0, cfg, 1))

\* A dry run has reported moves out of daily, and fewer decisions than the
\* run that is not a dry run takes.
C10_Witness ==
    /\ pc = "done" /\ InLevels /\ cfg.dryrun /\ runs = 1
    /\ HasMove(log)
    /\ Len(log) < Len(Decisions(RealPasses(fs0, cfg, 1)))

----------------------------------------------------------------------------
\* C11: a run with a limit of N that is not a dry run decides no move and
\* leaves in backup_path, of the eligible artifacts of each requested
\* extension, the N newest by date (all of them when there are no more than
\* N) and deletes the others.
C11_FlatKeepsNewest ==
    (pc = "done" /\ ~InLevels /\ ~cfg.dryrun /\ runs = 1) =>
        /\ ~HasMove(log)
        /\ \A ext \in Extensions :
              EligibleFor(fs[Root], ext)
                  = Newest(EligibleFor(fs0[Root], ext), ext, cfg.limit[1])

----------------------------------------------------------------------------
\* The call of prune_limit for the extension the run is at, made with all
\* the limits of the levels 0 and on a tree that has backup_path only.
FlatOnly ==
    prune_limit([d \in Dirs |-> IF d = Root THEN fs[Root] ELSE Missing],
                [cfg EXCEPT !.backup_levels = [l \in LevelSet |-> 0]],
                cfg.file_extensions[ei])

\* C12: in a run given a limit, 0 included, every call is a call of
\* prune_limit on backup_path: its decisions and what it leaves in
\* backup_path are those it takes whatever the limits of the levels are and
\* whether the directories of the levels exist or not, every decision is about
\* backup_path, and the directories of the levels stay as they are.
C12_LimitRunIsFlat ==
    [][(cfg.limit # None /\ pc = "run" /\ ei <= Len(cfg.file_extensions)) =>
        /\ fs'[Root] = FlatOnly.fs[Root]
        /\ log' = log \o FlatOnly.log
        /\ (pc' = "error") = FlatOnly.err
        /\ \A k \in 1..Len(log') : log'[k].level = Root
        /\ \A l \in LevelSet : fs'[l] = fs[l]]_vars

\* A run with a limit of 0 and limits above 0 for the levels has ended
\* without an error after deleting two artifacts, with no directory for any
\* level.
C12_Witness ==
    /\ pc = "done" /\ cfg.limit = <<0>> /\ ~cfg.dryrun /\ runs = 1
    /\ cfg.backup_levels["daily"] > 0
    /\ \A l \in LevelSet : fs[l] = Missing
    /\ Len(log) = 2 /\ fs[Root] \ EligibleIn(fs0[Root]) = fs[Root]

----------------------------------------------------------------------------
\* s.endswith(t)
EndsWith(s, t) ==
    Len(s) >= Len(t) /\ SubSeq(s, Len(s) - Len(t) + 1, Len(s)) = t

\* An entry of the kind the run prunes whose name ends in a requested
\* extension after an identifier that has a date (for a folder, whose name
\* has a date).
HasExtensionAndDate(e) ==
    IF cfg.folders THEN ~e.isfile /\ get_backup_date(e.name) # NoDate
    ELSE /\ e.isfile
         /\ \E ext \in Extensions :
               /\ EndsWith(e.name, <<".">> \o ext)
               /\ get_backup_date(SubSeq(e.name, 1, Len(e.name) - Len(ext) - 1))
                     # NoDate

NotEligibleIn(dir) == {e \in dir : ~HasExtensionAndDate(e)}

\* The tree without its entries that are not eligible.
EligibleOnly(tree) ==
    [d \in Dirs |-> IF tree[d] = Missing THEN Missing
                    ELSE tree[d] \ NotEligibleIn(tree[d])]

\* The call of prune_limit or prune_level the run is at, made on a tree.
CallOn(tree) ==
    IF cfg.limit # None THEN prune_limit(tree, cfg, cfg.file_extensions[ei])
    ELSE prune_level(tree, cfg, cfg.file_extensions[ei], Levels[li])

\* The run is at a call of prune_limit or prune_level.
AtCall ==
    /\ pc = "run"
    /\ ei <= Len(cfg.file_extensions)
    /\ cfg.limit = None => li <= Len(Levels)

\* What a call that takes the step does with the entries that are not
\* eligible, r being the same call made on the tree without them.
LeftAlone(r) ==
    /\ \A d \in Dirs : NotEligibleIn(fs[d]) \subseteq fs'[d]
    /\ log' = log \o r.log
    /\ \A d \in Dirs : fs'[d] = r.fs[d] \cup NotEligibleIn(fs[d])

\* C13: in a run in levels or with a limit, the entries that are not
\* eligible (no requested extension at the end of the name, or no date in the
\* identifier, or not of the kind the run prunes) stay in their directory
\* through every call, and the call decides and does what it would decide and
\* do without them: they are not counted against a limit.
C13_NotEligibleLeftAlone ==
    [][AtCall => LeftAlone(CallOn(EligibleOnly(fs)))]_vars

\* A run that is not a dry run has ended after evicting an artifact from
\* daily, where it has left an artifact and a file without a date.
C13_Witness ==
    /\ pc = "done" /\ InLevels /\ ~cfg.dryrun /\ runs = 1
    /\ log # <<>>
    /\ \E e \in NotEligibleIn(fs["daily"]) : e.isfile
    /\ Cardinality(fs["daily"]) = 2
    /\ cfg.backup_levels["daily"] = 1

----------------------------------------------------------------------------
\* The dates of the backups in a directory of files.
DatesIn(dir) == {get_backup_date(Split1(e.name, ".")[1]) : e \in dir}

Day(y, m, d) == [y |-> y, m |-> m, d |-> d]

\* The directory holds one backup for each of the dates and nothing else.
HoldsDates(dir, dates) ==
    DatesIn(dir) = dates /\ Cardinality(dir) = Cardinality(dates)

\* C14: from the 275 backups of 2017-11-15 to 2018-08-16 in daily and
\* nothing in the other levels, a run with the limits 14/6/6/6 leaves the 14
\* days from 2018-08-03 in daily, the six Saturdays 2018-06-23 to 2018-07-28
\* in weekly, the ends of January to May and of July 2018 in monthly and
\* 2017-12-31 in yearly; a run with the limits 20/4/3/2 leaves the 20 days
\* from 2018-07-28 in daily, the four Saturdays 2018-06-30 to 2018-07-21 in
\* weekly, the ends of March, April and May 2018 in monthly and 2017-12-31
\* in yearly.
C14_TestScenarios ==
    (pc = "done" /\ InLevels /\ ~cfg.dryrun /\ runs = 1) =>
        /\ cfg.backup_levels = DefaultDays =>
              /\ HoldsDates(fs["daily"], Sequential(Day(2018, 8, 3), 14))
              /\ HoldsDates(fs["weekly"],
                     {Day(2018, 6, 23), Day(2018, 6, 30), Day(2018, 7, 7),
                      Day(2018, 7, 14), Day(2018, 7, 21), Day(2018, 7, 28)})
              /\ HoldsDates(fs["monthly"],
                     {Day(2018, 1, 31), Day(2018, 2, 28), Day(2018, 3, 31),
                      Day(2018, 4, 30), Day(2018, 5, 31), Day(2018, 7, 31)})
              /\ HoldsDates(fs["yearly"], {Day(2017, 12, 31)})
        /\ cfg.backup_levels = ShorterDays =>
              /\ HoldsDates(fs["daily"], Sequential(Day(2018, 7, 28), 20))
              /\ HoldsDates(fs["weekly"],
                     {Day(2018, 6, 30), Day(2018, 7, 7),
                      Day(2018, 7, 14), Day(2018, 7, 21)})
              /\ HoldsDates(fs["monthly"],
                     {Day(2018, 3, 31), Day(2018, 4, 30), Day(2018, 5, 31)})
              /\ HoldsDates(fs["yearly"], {Day(2017, 12, 31)})

\* A run with the limits 20/4/3/2 over the 275 backups has ended, with 3
\* deletions out of monthly and a move from monthly to yearly.
C14_Witness ==
    /\ pc = "done" /\ InLevels /\ ~cfg.dryrun /\ runs = 1
    /\ cfg.backup_levels = ShorterDays
    /\ HoldsDates(fs0["daily"], Sequential(TestStart, 275))
    /\ Len(SelectSeq(log, LAMBDA d : d.level = "monthly" /\ d.op = "delete")) = 3
    /\ \E k \in 1..Len(log) : log[k].level = "monthly" /\ log[k].to = "yearly"

----------------------------------------------------------------------------
\* The files of a directory named by an identifier with a date, a dot and
\* the extension.
ArtifactsOf(dir, ext) ==
    {e \in dir :
        /\ e.isfile
        /\ EndsWith(e.name, <<".">> \o ext)
        /\ get_backup_date(SubSeq(e.name, 1, Len(e.name) - Len(ext) - 1)) # NoDate}

Min(a, b) == IF a <= b THEN a ELSE b

\* C15: a call of prune_level for a level and an extension, over files,
\* leaves in the level as many artifacts of the extension as there were, up
\* to the level's limit, whatever artifacts of other requested extensions the
\* level holds, and leaves the artifacts of every other requested extension
\* where they are, in every directory, also when the one extension is the
\* end of the other (bak, tmp.bak).
C15_ExtensionsAreIndependent ==
    [][(LevelPass /\ ~cfg.folders) =>
        /\ Cardinality(ArtifactsOf(fs'[Levels[li]], cfg.file_extensions[ei]))
              = Min(cfg.backup_levels[Levels[li]],
                    Cardinality(ArtifactsOf(fs[Levels[li]], cfg.file_extensions[ei])))
        /\ \A ext \in Extensions \ {cfg.file_extensions[ei]} : \A d \in Dirs :
              ArtifactsOf(fs'[d], ext) = ArtifactsOf(fs[d], ext)]_vars

\* A run over bak and tmp.bak with a daily limit of 1 has ended: it has
\* evicted an artifact of bak from daily and has kept there another one and
\* the artifact of tmp.bak that has the identifier of the evicted one.
C15_Witness ==
    /\ pc = "done" /\ InLevels /\ ~cfg.dryrun /\ ~cfg.folders /\ runs = 1
    /\ cfg.backup_levels["daily"] = 1
    /\ Cardinality(Extensions) = 2
    /\ Cardinality(fs["daily"]) = 2
    /\ \E k \in 1..Len(log) :
          /\ log[k].level = "daily" /\ log[k].ext = <<"b", "a", "k">>
          /\ DotJoin(log[k].file, <<"t", "m", "p", ".", "b", "a", "k">>)
                \in Names(fs["daily"])

----------------------------------------------------------------------------
\* C16: in every run of a sequence of runs, every move that is decided goes
\* to a level after the one the artifact is in, and an entry that comes into
\* the directory of a level comes out of the directory of an earlier level:
\* nothing comes into daily.
C16_MovesGoForward ==
    [][/\ \A k \in (Len(log) + 1)..Len(log') :
             log'[k].op = "move" =>
                 LevelIndex(log'[k].to) > LevelIndex(log'[k].level)
       /\ \A j \in 1..Len(Levels) : \A e \in fs'[Levels[j]] \ fs[Levels[j]] :
             \E i \in 1..(j - 1) : e \in fs[Levels[i]] \ fs'[Levels[i]]]_vars

\* A second run has ended on a tree in which the first run, with limits of 0
\* for weekly and monthly, had moved an artifact from daily through later
\* levels into yearly and had left an entry in daily.
C16_Witness ==
    /\ pc = "done" /\ InLevels /\ ~cfg.dryrun /\ runs = 2
    /\ \E e \in fs["yearly"] : \A l \in LevelSet \ {"yearly"} : e \notin fs[l]
    /\ cfg.backup_levels["weekly"] = 0 /\ cfg.backup_levels["monthly"] = 0
    /\ fs["daily"] # {}

----------------------------------------------------------------------------
\* The day of the week by Zeller's congruence: 0 is Saturday.
Zeller(dt) ==
    LET m == IF dt.m <= 2 THEN dt.m + 12 ELSE dt.m
        y == IF dt.m <= 2 THEN dt.y - 1 ELSE dt.y
    IN  (dt.d + ((13 * (m + 1)) \div 5) + (y % 100) + ((y % 100) \div 4)
         + ((y \div 100) \div 4) + 5 * (y \div 100)) % 7

\* C17: called with the name of a date, is_end_of returns True for 'weekly'
\* exactly when the date is a Saturday, for 'monthly' exactly when it is the
\* last day of its month, for 'yearly' exactly when it is December 31, and
\* False for 'daily' and for a timeframe it does not know.
C17_Classifier ==
    (call.fn = "is_end_of" /\ get_backup_date(call.filename) # NoDate) =>
        /\ ~ret.raised
        /\ ret.value =
              LET dt == get_backup_date(call.filename)
              IN  CASE call.timeframe = "weekly" -> Zeller(dt) = 0
                    [] call.timeframe = "monthly" -> dt.d = DaysInMonth(dt.y, dt.m)
                    [] call.timeframe = "yearly" -> dt.m = 12 /\ dt.d = 31
                    [] OTHER -> FALSE

----------------------------------------------------------------------------
\* The part of s before its first c, all of s when c is not in it.
LeftOf(s, c) ==
    SubSeq(s, 1, CHOOSE p \in 0..Len(s) :
                    /\ \A i \in 1..p : s[i] # c
                    /\ (p < Len(s) => s[p + 1] = c))

\* The ways a month or a day is written that strptime reads: with two
\* digits, with one, and a day also with a blank before its one digit.
WrittenNumber(n, blank) ==
    {Pad2(n)}
    \cup (IF n < 10 THEN { <<Digits[n + 1]>> } ELSE {})
    \cup (IF n < 10 /\ blank THEN { <<" ", Digits[n + 1]>> } ELSE {})

\* The ways a date is written in YYYY-MM-DD (dashed) or YYYYMMDD.
Written(dt, dashed) ==
    {Pad4(dt.y) \o (IF dashed THEN <<"-">> ELSE <<>>) \o mm
                \o (IF dashed THEN <<"-">> ELSE <<>>) \o dd :
        mm \in WrittenNumber(dt.m, FALSE), dd \in WrittenNumber(dt.d, TRUE)}

\* The dates a token is a way of writing.
Readings(token, dashed) ==
    IF Len(token) < 4 \/ \E i \in 1..4 : ~IsDigit(token[i]) THEN {}
    ELSE {dt \in DatesOf({IntOf(SubSeq(token, 1, 4))}) :
             token \in Written(dt, dashed)}

\* The date a token is read as: of two readings of YYYYMMDD the one whose
\* month has two digits; NoDate when it has no reading.
ReadingOf(readings) ==
    IF readings = {} THEN NoDate
    ELSE CHOOSE dt \in readings : \A o \in readings : o.m <= dt.m

\* The date of the token, read as YYYY-MM-DD and, failing that, as YYYYMMDD.
DateOfToken(token) ==
    IF Readings(token, TRUE) # {} THEN ReadingOf(Readings(token, TRUE))
    ELSE ReadingOf(Readings(token, FALSE))

\* The date token of the rule: the part before the first _ or, in a name
\* without _, before the first -.
StatedToken(filename) ==
    IF \E i \in 1..Len(filename) : filename[i] = "_"
    THEN LeftOf(filename, "_")
    ELSE LeftOf(filename, "-")

\* C18 as stated: get_backup_date returns the date of the one token that the
\* name is split at its first _ (at its first - when it has no _) to give,
\* read as YYYY-MM-DD and, failing that, as YYYYMMDD, and None when the token
\* is neither.
C18_AsStated ==
    call.fn = "get_backup_date" =>
        ret.value = DateOfToken(StatedToken(call.filename))

\* C18: get_backup_date makes two tries, each on a token of its own.  It
\* returns the date of the part before the first _ (of the whole name when it
\* has no _) when that part reads as YYYY-MM-DD; otherwise the date of the
\* part before the first - of the whole name (of the whole name when it has
\* no -) when that part reads as YYYYMMDD; otherwise None.  A month or a day
\* may be written with one digit.
C18_TwoTries ==
    call.fn = "get_backup_date" =>
        ret.value =
            IF Readings(LeftOf(call.filename, "_"), TRUE) # {}
            THEN ReadingOf(Readings(LeftOf(call.filename, "_"), TRUE))
            ELSE ReadingOf(Readings(LeftOf(call.filename, "-"), FALSE))

\* C18 witness: get_backup_date has returned January 5, 2018 for a name in
\* the alternate format whose description holds a _ after a -, which the one
\* token of the stated rule gives no date for.
C18_Witness ==
    /\ call.fn = "get_backup_date"
    /\ call.filename = <<"2", "0", "1", "8", "0", "1", "0", "5", "-", "a", "_", "b">>
    /\ ret.value = [y |-> 2018, m |-> 1, d |-> 5]
    /\ DateOfToken(StatedToken(call.filename)) = NoDate

----------------------------------------------------------------------------
\* The names of the forms of the docstring for a date.
DocumentedNames(dt) ==
    {FormatDate(dt, FALSE) \o text :
        text \in { <<>>, <<"_", "a">>, <<"_", "a", "_", "b">> }}
    \cup
    {FormatDate(dt, TRUE) \o text :
        text \in { <<>>, <<"-", "1", "2", "3", "0">>, <<"-", "a">>,
                   <<"-", "a", "-", "b">>, <<"-", "a", "_", "b">> }}

\* The dates a name may start with, in one format or the other.
LeadingDates(filename) ==
    Readings(SubSeq(filename, 1, Min(10, Len(filename))), TRUE)
    \cup Readings(SubSeq(filename, 1, Min(8, Len(filename))), FALSE)

\* The name of a backup of the tests in the other format: the date written
\* the other way and the other separator before the suffix.
Rewritten(name) ==
    LET alt == At(name, 5) # "-"
        n == IF alt THEN 8 ELSE 10
    IN  FormatDate([y |-> IntOf(SubSeq(name, 1, 4)),
                    m |-> IntOf(SubSeq(name, IF alt THEN 5 ELSE 6, IF alt THEN 6 ELSE 7)),
                    d |-> IntOf(SubSeq(name, n - 1, n))], ~alt)
        \o (IF At(name, n + 1) = (IF alt THEN "-" ELSE "_")
            THEN <<IF alt THEN "_" ELSE "-">> \o SubSeq(name, n + 2, Len(name))
            ELSE SubSeq(name, n + 1, Len(name)))

\* The tree with every backup under its name in the other format.
RewrittenTree(tree) ==
    [d \in Dirs |-> IF tree[d] = Missing THEN Missing
                    ELSE {[e EXCEPT !.name = Rewritten(e.name)] : e \in tree[d]}]

\* The decisions on the backups under their names in the other format.
RewrittenLog(out) ==
    [k \in 1..Len(out) |-> [out[k] EXCEPT !.file = Rewritten(out[k].file)]]

\* The call over the backups in the other format does to them what the call
\* r has done.
SameDates(r) ==
    /\ r.fs = RewrittenTree(fs')
    /\ r.log = RewrittenLog(SubSeq(log', Len(log) + 1, Len(log')))
    /\ r.err = (pc' = "error")

\* C19: get_backup_date returns the date a name starts with for every name
\* of the forms YYYY-MM-DD, YYYY-MM-DD_text, YYYY-MM-DD_text_text, YYYYMMDD,
\* YYYYMMDD-HHMM, YYYYMMDD-text, YYYYMMDD-text-text and YYYYMMDD-text_text,
\* and None for a name of which no part reads as a date; and over the backups
\* of the tests a call of prune_level or prune_limit keeps, moves and deletes
\* the same backups, and reports the same decisions, whether their names are
\* written YYYYMMDD-suffix or YYYY-MM-DD_suffix.
C19_BothFormats ==
    [][ /\ call'.fn = "get_backup_date" =>
              /\ \A dt \in LeadingDates(call'.filename) :
                    call'.filename \in DocumentedNames(dt) => ret'.value = dt
              /\ (/\ Readings(LeftOf(call'.filename, "_"), TRUE) = {}
                  /\ Readings(LeftOf(call'.filename, "-"), FALSE) = {})
                    => ret'.value = NoDate
        /\ (pc = "run" /\ ei <= Len(cfg.file_extensions)
                /\ (cfg.limit = None => li <= Len(Levels))) =>
              SameDates(IF cfg.limit = None
                        THEN prune_level(RewrittenTree(fs), cfg,
                                         cfg.file_extensions[ei], Levels[li])
                        ELSE prune_limit(RewrittenTree(fs), cfg,
                                         cfg.file_extensions[ei]))
      ]_vars

\* C19 witness: a run over the 275 backups named YYYYMMDD-test_backup.bak
\* has ended with 20171231-test_backup.bak moved to yearly, Saturdays in
\* weekly and ends of months in monthly.
C19_Witness ==
    /\ pc = "done" /\ InLevels /\ ~cfg.dryrun /\ ~cfg.folders /\ runs = 1
    /\ fs["yearly"] = {File(DotJoin(FormatName(Day(2017, 12, 31), TestSuffix, TRUE),
                                    <<"b", "a", "k">>))}
    /\ cfg.backup_levels = DefaultDays
    /\ Cardinality(fs["weekly"]) = 6 /\ Cardinality(fs["monthly"]) = 6

----------------------------------------------------------------------------
\* The identifier of a file named identifier.extension.
IdentifierOf(e, extension) ==
    SubSeq(e.name, 1, Len(e.name) - Len(extension) - 1)

\* The files of a directory named identifier.extension, the identifier
\* without a dot and with a date.
NamedFor(dir, extension) ==
    {e \in dir :
        /\ e.isfile
        /\ EndsWith(e.name, <<".">> \o extension)
        /\ \A i \in 1..Len(IdentifierOf(e, extension)) :
              IdentifierOf(e, extension)[i] # "."
        /\ get_backup_date(IdentifierOf(e, extension)) # NoDate}

\* The files the decisions take out of the directory pruned, and those they
\* move into a directory, under the names identifier.extension.
TakenOut(decisions) ==
    {File(DotJoin(decisions[k].file, decisions[k].ext)) :
        k \in 1..Len(decisions)}

MovedInto(decisions, dir) ==
    {File(DotJoin(decisions[k].file, decisions[k].ext)) :
        k \in {j \in 1..Len(decisions) :
                  decisions[j].op = "move" /\ decisions[j].to = dir}}

\* What a call that did not raise has done for an extension of several
\* parts: its decisions are on identifiers of held, as many as held has over
\* the limit, and on disk each is carried out on the file identifier.extension.
MultipartCall(held, path, extension, limit, decisions) ==
    /\ Len(decisions) = (IF Cardinality(held) > limit
                         THEN Cardinality(held) - limit ELSE 0)
    /\ \A k \in 1..Len(decisions) :
          /\ decisions[k].ext = extension
          /\ \E e \in held : decisions[k].file = IdentifierOf(e, extension)
    /\ \A dir \in Dirs :
          fs'[dir] = IF cfg.dryrun THEN fs[dir]
                     ELSE (fs[dir] \ (IF dir = path THEN TakenOut(decisions)
                                      ELSE {}))
                          \cup MovedInto(decisions, dir)

\* C20: for a requested extension of several parts (tmp.bak), a call of
\* prune_level or prune_limit counts every file named identifier.extension
\* whose identifier has no dot and has a date, under exactly that identifier
\* (2018-03-31.tmp.bak as 2018-03-31), and moves or deletes the file under
\* its whole name, leaving a file of the same identifier and another
\* extension (2018-03-31.bak) where it is.
C20_MultipartExtension ==
    [][ (/\ pc = "run" /\ pc' = "run"
         /\ ei <= Len(cfg.file_extensions)
         /\ cfg.limit = None => li <= Len(Levels)
         /\ \E i \in 1..Len(cfg.file_extensions[ei]) :
               cfg.file_extensions[ei][i] = ".") =>
          MultipartCall(
              NamedFor(fs[IF cfg.limit = None THEN Levels[li] ELSE Root],
                       cfg.file_extensions[ei]),
              IF cfg.limit = None THEN Levels[li] ELSE Root,
              cfg.file_extensions[ei],
              IF cfg.limit = None THEN cfg.backup_levels[Levels[li]]
              ELSE cfg.limit[1],
              SubSeq(log', Len(log) + 1, Len(log')))
      ]_vars

\* C20 witness: a run has moved 2018-03-31.tmp.bak out of daily into weekly
\* under that name, after 2018-03-31.bak.
C20_Witness ==
    /\ pc = "done" /\ InLevels /\ ~cfg.dryrun /\ runs = 1
    /\ {File(<<"2", "0", "1", "8", "-", "0", "3", "-", "3", "1", ".", "b", "a", "k">>),
        File(<<"2", "0", "1", "8", "-", "0", "3", "-", "3", "1", ".",
               "t", "m", "p", ".", "b", "a", "k">>)} \subseteq fs["weekly"]
    /\ fs["daily"] = {}
    /\ \E k \in 1..Len(log) :
          log[k] = Moving("daily", <<"2", "0", "1", "8", "-", "0", "3", "-", "3", "1">>,
                          <<"t", "m", "p", ".", "b", "a", "k">>, "weekly")

----------------------------------------------------------------------------
\* The ways an extension is given that differ by blanks around it and by
\* one dot before it.
Spelling(ext, way) ==
    CASE way = 1 -> ext
      [] way = 2 -> <<".">> \o ext
      [] way = 3 -> <<".">> \o ext \o <<" ">>
      [] way = 4 -> <<" ">> \o ext \o <<" ">>
      [] OTHER -> <<" ", " ", ".">> \o ext \o <<" ", " ">>

\* The lists of extensions given in those ways, each in a way of its own.
Respelled(exts) ==
    {[j \in 1..Len(exts) |-> Spelling(exts[j], ways[j])] :
        ways \in [1..Len(exts) -> 1..5]}

\* The lists of extensions given all in the same way.
RespelledOneWay(exts) ==
    {[j \in 1..Len(exts) |-> Spelling(exts[j], way)] : way \in 1..5}

\* The object made with the extensions given as spelled makes the call that
\* the step of the run made, with the same result.
SameCall(c) ==
    \E r \in {IF cfg.limit = None
              THEN prune_level(fs, c, c.file_extensions[ei], Levels[li])
              ELSE prune_limit(fs, c, c.file_extensions[ei])} :
        /\ r.fs = fs'
        /\ log \o r.log = log'
        /\ r.err = (pc' = "error")

\* The object made with the extensions given as spelled holds the
\* extensions of the run and finds the same names in the directory.
SameScan(c, dir) ==
    /\ c.file_extensions = cfg.file_extensions
    /\ get_directory_files(dir, c.file_extensions[ei], c.folders)
       = get_directory_files(dir, cfg.file_extensions[ei], cfg.folders)

\* C21: whichever way the extensions are given (bak, .bak, '.bak ',
\* ' tmp.bak '), the object holds the same extensions, the scan of a
\* directory gives the same names and the call of prune_level or prune_limit
\* does the same to the tree and reports the same decisions.
C21_SpellingsAgree ==
    [][ (/\ pc = "run"
         /\ ei <= Len(cfg.file_extensions)
         /\ cfg.limit = None => li <= Len(Levels)) =>
          /\ \A spelled \in Respelled(cfg.file_extensions) :
                Shears(spelled, cfg.folders, cfg.limit, cfg.dryrun,
                       cfg.backup_levels) = cfg
          /\ \A spelled \in RespelledOneWay(cfg.file_extensions) :
                /\ SameScan(Shears(spelled, cfg.folders, cfg.limit, cfg.dryrun,
                                   cfg.backup_levels),
                            fs[IF cfg.limit = None THEN Levels[li] ELSE Root])
                /\ SameCall(Shears(spelled, cfg.folders, cfg.limit, cfg.dryrun,
                                   cfg.backup_levels))
      ]_vars

\* C21 witness: a run given bak and tmp.bak, which '  .bak  ' and
\* ' tmp.bak ' also spell, has moved 2018-03-31.bak and deleted
\* 2018-03-31.tmp.bak.
C21_Witness ==
    /\ pc = "done" /\ ~cfg.dryrun /\ runs = 1
    /\ Len(cfg.file_extensions) = 2
    /\ << <<" ", " ", ".", "b", "a", "k", " ", " ">>,
          <<" ", "t", "m", "p", ".", "b", "a", "k", " ">> >>
          \in Respelled(cfg.file_extensions)
    /\ \E k \in 1..Len(log) : log[k].op = "move" /\ log[k].ext = cfg.file_extensions[1]
    /\ \E k \in 1..Len(log) : log[k].op = "delete" /\ log[k].ext = cfg.file_extensions[2]

----------------------------------------------------------------------------
\* The files of a directory that are no backups of the extension: the name
\* does not end in the extension, or what is before the extension has no date.
Strays(dir, extension) ==
    {e \in dir :
        /\ e.isfile
        /\ \/ ~EndsWith(e.name, <<".">> \o extension)
           \/ get_backup_date(IdentifierOf(e, extension)) = NoDate}

\* The call r, made over the tree without the strays of the directory path,
\* has done what the step of the run did, which left the strays in place.
AsWithout(strays, path, r) ==
    /\ (pc' = "error") = r.err
    /\ fs' = [r.fs EXCEPT ![path] = @ \cup strays]
    /\ log' = log \o r.log

\* C22: a call of prune_level or prune_limit over files, in a directory that
\* holds files that are no backups of the extension (a name that does not
\* end in the extension, a name without a dot, a name without a date), does
\* not raise because of them and prunes the backups of the directory as it
\* would without them; the run goes on.
C22_SkippedWithoutError ==
    [][ (/\ pc = "run" /\ ~cfg.folders
         /\ ei <= Len(cfg.file_extensions)
         /\ cfg.limit = None => li <= Len(Levels)
         /\ fs[IF cfg.limit = None THEN Levels[li] ELSE Root] # Missing) =>
          AsWithout(
              Strays(fs[IF cfg.limit = None THEN Levels[li] ELSE Root],
                     cfg.file_extensions[ei]),
              IF cfg.limit = None THEN Levels[li] ELSE Root,
              IF cfg.limit = None
              THEN prune_level(
                       [fs EXCEPT ![Levels[li]] =
                           @ \ Strays(@, cfg.file_extensions[ei])],
                       cfg, cfg.file_extensions[ei], Levels[li])
              ELSE prune_limit(
                       [fs EXCEPT ![Root] =
                           @ \ Strays(@, cfg.file_extensions[ei])],
                       cfg, cfg.file_extensions[ei]))
      ]_vars

----------------------------------------------------------------------------
\* The files of a directory whose name ends in .extension after an
\* identifier with a date, with or without dots in the identifier.
NamedFromRight(dir, extension) ==
    {e \in dir :
        /\ e.isfile
        /\ EndsWith(e.name, <<".">> \o extension)
        /\ get_backup_date(IdentifierOf(e, extension)) # NoDate}

\* C23: a call of prune_level or prune_limit over files counts every file
\* whose name ends in .extension after an identifier with a date, also when
\* the identifier has a dot in it (2018-08-01_v1.2.bak under bak, as
\* 2018-08-01_v1.2), and moves or deletes those over the limit.
C23_MatchedFromRight ==
    [][ (/\ pc = "run" /\ pc' = "run" /\ ~cfg.folders
         /\ ei <= Len(cfg.file_extensions)
         /\ cfg.limit = None => li <= Len(Levels)) =>
          MultipartCall(
              NamedFromRight(fs[IF cfg.limit = None THEN Levels[li] ELSE Root],
                             cfg.file_extensions[ei]),
              IF cfg.limit = None THEN Levels[li] ELSE Root,
              cfg.file_extensions[ei],
              IF cfg.limit = None THEN cfg.backup_levels[Levels[li]]
              ELSE cfg.limit[1],
              SubSeq(log', Len(log) + 1, Len(log')))
      ]_vars

----------------------------------------------------------------------------
\* C24: when the directory of the level a run is at (backup_path, with a
\* limit) does not exist, the call of prune_level or prune_limit raises
\* without a move, a deletion or a decision, and after a call has raised the
\* run does nothing more: no later level or extension is pruned.
C24_UnlistableAborts ==
    [][ /\ pc # "error"
        /\ (/\ pc = "run"
            /\ ei <= Len(cfg.file_extensions)
            /\ cfg.limit = None => li <= Len(Levels)
            /\ fs[IF cfg.limit = None THEN Levels[li] ELSE Root] = Missing) =>
              (pc' = "error" /\ fs' = fs /\ log' = log)
      ]_vars

\* C24 witness: a run has deleted a backup out of daily, found nothing in
\* weekly, and has raised at monthly, whose directory does not exist.
C24_Witness ==
    /\ pc = "error" /\ InLevels /\ ~cfg.dryrun /\ ~cfg.folders
    /\ fs["monthly"] = Missing
    /\ fs0["weekly"] = {} /\ fs["weekly"] = {}
    /\ Len(log) = 1 /\ log[1].op = "delete" /\ log[1].level = "daily"
    /\ fs["daily"] = {}

----------------------------------------------------------------------------
\* The number of backups a call finds over the limit.
Overflow(dir, extension, limit) ==
    IF Len(get_directory_files(dir, extension, cfg.folders)) > limit
    THEN Len(get_directory_files(dir, extension, cfg.folders)) - limit
    ELSE 0

\* C25: a call of prune_level or prune_limit that has read its directory
\* goes through all the backups over the limit, also when a rename or a
\* removal fails: it reports a decision for each of them and the run goes on
\* with the next extension or level.
C25_FailureContinues ==
    [][ (/\ pc = "run"
         /\ ei <= Len(cfg.file_extensions)
         /\ cfg.limit = None => li <= Len(Levels)
         /\ fs[IF cfg.limit = None THEN Levels[li] ELSE Root] # Missing
         /\ \A e \in fs[IF cfg.limit = None THEN Levels[li] ELSE Root] :
               e.isfile => \E i \in 1..Len(e.name) : e.name[i] = ".") =>
          /\ pc' = "run"
          /\ Len(log') - Len(log) =
                Overflow(fs[IF cfg.limit = None THEN Levels[li] ELSE Root],
                         cfg.file_extensions[ei],
                         IF cfg.limit = None THEN cfg.backup_levels[Levels[li]]
                         ELSE cfg.limit[1])
      ]_vars

----------------------------------------------------------------------------
\* The tree with a file identifier.bak for every folder identifier.
AsFiles(tree) ==
    [d \in Dirs |->
        IF tree[d] = Missing THEN Missing
        ELSE {IF e.isfile THEN e
              ELSE File(DotJoin(e.name, <<"b", "a", "k">>)) : e \in tree[d]}]

\* The decisions with bak for the extension.
AsFileLog(out) ==
    [k \in 1..Len(out) |-> [out[k] EXCEPT !.ext = <<"b", "a", "k">>]]

\* The call r, made over the files, has done to them what the step of the
\* run did to the folders.
SameAsFiles(r) ==
    /\ r.fs = AsFiles(fs')
    /\ r.log = AsFileLog(SubSeq(log', Len(log) + 1, Len(log')))
    /\ r.err = (pc' = "error")

\* C26: over a tree whose entries are all folders, a call of prune_level or
\* prune_limit for folders keeps, moves and deletes the folders whose files
\* identifier.bak the call for files and the extension bak keeps, moves and
\* deletes, with the same decisions and the same outcome.
C26_FoldersAsFiles ==
    [][ (/\ pc = "run" /\ cfg.folders
         /\ ei <= Len(cfg.file_extensions)
         /\ cfg.limit = None => li <= Len(Levels)
         /\ \A d \in Dirs : \A e \in fs[d] : ~e.isfile) =>
          SameAsFiles(
              IF cfg.limit = None
              THEN prune_level(AsFiles(fs),
                               [cfg EXCEPT !.folders = FALSE,
                                           !.file_extensions = << <<"b", "a", "k">> >>],
                               <<"b", "a", "k">>, Levels[li])
              ELSE prune_limit(AsFiles(fs),
                               [cfg EXCEPT !.folders = FALSE,
                                           !.file_extensions = << <<"b", "a", "k">> >>],
                               <<"b", "a", "k">>))
      ]_vars

----------------------------------------------------------------------------
\* The number of the call of prune_level the run is at, counting the levels
\* in order and, for each level, the extensions in order.
Position(level_index, extension_index) ==
    (level_index - 1) * Len(cfg.file_extensions) + extension_index

\* C27: a run in levels calls prune_level once for each level and extension,
\* the levels in the order daily, weekly, monthly, yearly and for each level
\* every extension before the next level, and ends after the last; a call
\* reports decisions on its level and extension only, puts nothing into its
\* own level or an earlier one, and leaves the earlier levels as they are,
\* so a level gets no backup once the run has pruned it.
C27_OncePerRunInOrder ==
    [][ /\ (/\ pc = "run" /\ cfg.limit = None
            /\ li <= Len(Levels) /\ ei <= Len(cfg.file_extensions)) =>
              /\ pc' # "done"
              /\ pc' = "run" => Position(li', ei') = Position(li, ei) + 1
              /\ ei' \in 1..Len(cfg.file_extensions)
              /\ \A k \in (Len(log) + 1)..Len(log') :
                    /\ log'[k].level = Levels[li]
                    /\ log'[k].ext = cfg.file_extensions[ei]
                    /\ log'[k].op = "move" => LevelIndex(log'[k].to) > li
              /\ \A i \in 1..Len(Levels) :
                    /\ i <= li => fs'[Levels[i]] \subseteq fs[Levels[i]]
                    /\ i < li => fs'[Levels[i]] = fs[Levels[i]]
        /\ (pc = "run" /\ cfg.limit = None /\ pc' = "done") =>
              Position(li, ei) = Position(Len(Levels), Len(cfg.file_extensions)) + 1
        /\ (pc = "done" /\ pc' = "run") => Position(li', ei') = 1
      ]_vars

\* C27 witness: a run with two extensions has moved a backup of each out of
\* daily into weekly and then each out of weekly into monthly.
C27_Witness ==
    /\ pc = "done" /\ InLevels /\ ~cfg.dryrun /\ runs = 1
    /\ Len(cfg.file_extensions) = 2
    /\ Len(log) >= 4
    /\ log[2] = Moving("daily", log[2].file, cfg.file_extensions[2], "weekly")
    /\ log[3] = Moving("weekly", log[3].file, cfg.file_extensions[1], "monthly")
    /\ log[4] = Moving("weekly", log[4].file, cfg.file_extensions[2], "monthly")

----------------------------------------------------------------------------
\* The number of directories of the tree that hold an entry of the name.
Copies(tree, name) ==
    Cardinality({d \in Dirs : tree[d] # Missing /\ name \in Names(tree[d])})

\* The number of decisions to delete the entry of the name.
Deletions(out, name) ==
    Cardinality({k \in 1..Len(out) :
                    /\ out[k].op = "delete"
                    /\ DiskName(out[k].file, out[k].ext, cfg.folders) = name})

\* C28: when a run that is not a dry run ends, every entry the tree held
\* when the run started is still in the tree under its name, in one
\* directory for each directory it was in, unless the run reported a
\* decision to delete it: no entry goes without such a decision, also when a
\* backup is moved into a directory that holds one of the same name.
C28_NothingLostSilently ==
    [][ (pc = "run" /\ pc' = "done" /\ ~cfg.dryrun) =>
          \A name \in UNION {Names(fs0[d]) : d \in Dirs} :
              name # <<>> =>
                  Copies(fs0, name) = Copies(fs', name) + Deletions(log', name)
      ]_vars

----------------------------------------------------------------------------
\* The date of an entry: of the name of a folder, of the name of a file up
\* to its first dot.
EntryDate(e) ==
    IF e.isfile THEN get_backup_date(Split1(e.name, ".")[1])
    ELSE get_backup_date(e.name)

\* C29: with nothing in weekly, monthly and yearly to begin with, whatever
\* is written into daily between the runs and whatever the limits, zero
\* included, every entry of weekly is of a Saturday, every entry of monthly
\* of the last day of its month and every entry of yearly of a December 31.
C29_TiersHoldTheirDates ==
    /\ fs["weekly"] # Missing =>
          \A e \in fs["weekly"] : EntryDate(e) # NoDate /\ Zeller(EntryDate(e)) = 0
    /\ fs["monthly"] # Missing =>
          \A e \in fs["monthly"] :
              /\ EntryDate(e) # NoDate
              /\ EntryDate(e).d = DaysInMonth(EntryDate(e).y, EntryDate(e).m)
    /\ fs["yearly"] # Missing =>
          \A e \in fs["yearly"] :
              EntryDate(e) # NoDate /\ EntryDate(e).m = 12 /\ EntryDate(e).d = 31

\* C29 witness: a first run has moved 2017-12-31.bak through monthly into
\* yearly, then 2018-08-04.bak was written into daily and a second run has
\* moved it into weekly.
C29_Witness ==
    /\ pc = "done" /\ runs = 2 /\ ~cfg.dryrun /\ ~cfg.folders
    /\ fs0["daily"] = {File(<<"2", "0", "1", "8", "-", "0", "8", "-", "0", "4", ".", "b", "a", "k">>)}
    /\ fs0["yearly"] = {File(<<"2", "0", "1", "7", "-", "1", "2", "-", "3", "1", ".", "b", "a", "k">>)}
    /\ fs["weekly"] = fs0["daily"]
    /\ fs["yearly"] = fs0["yearly"]
    /\ fs["daily"] = {}

----------------------------------------------------------------------------
\* C30: no backup is moved into yearly out of daily or out of weekly: a
\* backup of a December 31 is at the end of a month too and monthly comes
\* before yearly in the search, so every move into yearly is out of monthly,
\* also when the limit of monthly is 0.
C30_YearlyOnlyFromMonthly ==
    \A k \in 1..Len(log) :
        (log[k].op = "move" /\ log[k].to = "yearly") => log[k].level = "monthly"

\* C30 witness: with a limit of 0 for monthly, a run has moved a backup of
\* a December 31 out of daily into monthly and later out of monthly into
\* yearly.
C30_Witness ==
    /\ pc = "done" /\ InLevels /\ cfg.backup_levels["monthly"] = 0
    /\ \E j \in 1..Len(log), k \in 1..Len(log) :
          /\ j < k
          /\ log[j].op = "move" /\ log[j].level = "daily" /\ log[j].to = "monthly"
          /\ log[k] = Moving("monthly", log[j].file, log[j].ext, "yearly")
          /\ get_backup_date(log[j].file).m = 12
          /\ get_backup_date(log[j].file).d = 31

====
